---- MODULE Spec2Model ----
(***************************************************************************)
(* Model of the ValidatorAgent of ai-task-orchestrator                      *)
(* (src/agents/validator.js): validatePlan runs five rule evaluators over a *)
(* plan, scores the findings and derives recommendations.                   *)
(*                                                                         *)
(* JavaScript strings are modelled as sequences of one-character strings,   *)
(* so that includes(), toLowerCase(), template strings and the regular      *)
(* expressions of the source are computed character by character.           *)
(* A value that may be undefined is a record [def, val].                    *)
(*                                                                         *)
(* Also modelled: the PlannerAgent's plans (src/agents/planner.js), the     *)
(* serverless handler main (src/serverless/api.js) and processTask of the   *)
(* browser application (src/app.js).                                        *)
(***************************************************************************)
EXTENDS Integers, Sequences, FiniteSets, TLC

VARIABLES plan, pc, validations, result, again, prev, ran, main, app

vars == <<plan, pc, validations, result, again, prev, ran, main, app>>

\* ---------------------------------------------------------------- strings

S_hours == <<"h","o","u","r","s">>
S_weeks == <<"w","e","e","k","s">>
S_mitigat == <<"m","i","t","i","g","a","t">>
S_backup == <<"b","a","c","k","u","p">>
S_Resource == <<"R","e","s","o","u","r","c","e">>
S_Timeline == <<"T","i","m","e","l","i","n","e">>
S_undefined == <<"u","n","d","e","f","i","n","e","d">>
S_Step == <<"S","t","e","p"," ">>
S_Feasibility == <<" ","F","e","a","s","i","b","i","l","i","t","y">>
S_hoursUnit == <<" ","h","o","u","r","s">>
S_daysUnit == <<" ","d","a","y","s">>
S_weeksUnit == <<" ","w","e","e","k","s">>
T_OverallFeasibility == <<"O","v","e","r","a","l","l"," ","F","e","a","s","i","b","i","l","i","t","y">>
T_ResourceRequirements == <<"R","e","s","o","u","r","c","e"," ","R","e","q","u","i","r","e","m","e","n","t","s">>
T_CriticalResources == <<"C","r","i","t","i","c","a","l"," ","R","e","s","o","u","r","c","e","s">>
T_TimelineAssessment == <<"T","i","m","e","l","i","n","e"," ","A","s","s","e","s","s","m","e","n","t">>
T_DurationBalance == <<"D","u","r","a","t","i","o","n"," ","B","a","l","a","n","c","e">>
T_CircularDependencies == <<"C","i","r","c","u","l","a","r"," ","D","e","p","e","n","d","e","n","c","i","e","s">>
T_ComplexDependencies == <<"C","o","m","p","l","e","x"," ","D","e","p","e","n","d","e","n","c","i","e","s">>
T_DependencyStructure == <<"D","e","p","e","n","d","e","n","c","y"," ","S","t","r","u","c","t","u","r","e">>
T_HighRisksIdentified == <<"H","i","g","h"," ","R","i","s","k","s"," ","I","d","e","n","t","i","f","i","e","d">>
T_MediumRisks == <<"M","e","d","i","u","m"," ","R","i","s","k","s">>
T_RiskMitigation == <<"R","i","s","k"," ","M","i","t","i","g","a","t","i","o","n">>
T_BasicStructure == <<"B","a","s","i","c"," ","S","t","r","u","c","t","u","r","e">>
T_LimitedDetail == <<"L","i","m","i","t","e","d"," ","D","e","t","a","i","l">>

\* this.riskFactors.high / .medium (riskFactors.low is never read by the code)
riskFactorsHigh ==
  << <<"t","i","g","h","t"," ","t","i","m","e","l","i","n","e">>,
     <<"c","o","m","p","l","e","x"," ","d","e","p","e","n","d","e","n","c","i","e","s">>,
     <<"u","n","k","n","o","w","n"," ","t","e","c","h","n","o","l","o","g","y">>,
     <<"l","i","m","i","t","e","d"," ","r","e","s","o","u","r","c","e","s">>,
     <<"m","u","l","t","i","p","l","e"," ","s","t","a","k","e","h","o","l","d","e","r","s">> >>

riskFactorsMedium ==
  << <<"m","o","d","e","r","a","t","e"," ","c","o","m","p","l","e","x","i","t","y">>,
     <<"s","o","m","e"," ","d","e","p","e","n","d","e","n","c","i","e","s">>,
     <<"l","i","m","i","t","e","d"," ","e","x","p","e","r","t","i","s","e">>,
     <<"b","u","d","g","e","t"," ","c","o","n","s","t","r","a","i","n","t","s">> >>

criticalKeywords ==
  << <<"s","p","e","c","i","a","l","i","z","e","d">>,
     <<"e","x","p","e","r","t">>,
     <<"l","i","c","e","n","s","e","d">>,
     <<"p","r","e","m","i","u","m">>,
     <<"c","u","s","t","o","m">>,
     <<"r","a","r","e">> >>

UpperChars == <<"A","B","C","D","E","F","G","H","I","J","K","L","M","N","O","P","Q","R","S","T","U","V","W","X","Y","Z">>

LowerChars == <<"a","b","c","d","e","f","g","h","i","j","k","l","m","n","o","p","q","r","s","t","u","v","w","x","y","z">>

DigitChars == <<"0","1","2","3","4","5","6","7","8","9">>

\* sample texts the inputs are drawn from
Dur_1_2_hours == <<"1","-","2"," ","h","o","u","r","s">>
Dur_3_4_hours == <<"3","-","4"," ","h","o","u","r","s">>
Dur_10_12_hours == <<"1","0","-","1","2"," ","h","o","u","r","s">>
Dur_40_60_hours == <<"4","0","-","6","0"," ","h","o","u","r","s">>
Dur_soon == <<"s","o","o","n">>
Dur_2_days == <<"2"," ","d","a","y","s">>
Txt_goodTitle == <<"D","e","f","i","n","e"," ","s","c","o","p","e">>
Txt_goodDesc == <<"P","l","a","n"," ","a","n","d"," ","m","i","t","i","g","a","t","e"," ","d","e","l","i","v","e","r","y"," ","r","i","s","k","s">>
Txt_shortDesc == <<"M","i","t","i","g","a","t","e">>
Txt_riskTitle == <<"T","i","g","h","t"," ","T","i","m","e","l","i","n","e",","," ","b","u","d","g","e","t"," ","c","o","n","s","t","r","a","i","n","t","s">>
Txt_plainDesc == <<"G","a","t","h","e","r"," ","t","h","e"," ","r","e","q","u","i","r","e","m","e","n","t","s"," ","f","r","o","m"," ","u","s","e","r","s">>
Res_Laptop == <<"L","a","p","t","o","p">>
Res_Docs == <<"D","o","c","s">>
Res_ExpertBackup == <<"E","x","p","e","r","t"," ","b","a","c","k","u","p">>

\* durations whose midpoints lie on and just above the limits of
\* calculatePlanDuration and assessTimeline: 8, 8.5, 40, 40.5, 160, 160.5 hours
BoundaryDurations ==
  << <<"7","-","9"," ","h","o","u","r","s">>,
     <<"8","-","9"," ","h","o","u","r","s">>,
     <<"3","9","-","4","1"," ","h","o","u","r","s">>,
     <<"4","0","-","4","1"," ","h","o","u","r","s">>,
     <<"1","5","9","-","1","6","1"," ","h","o","u","r","s">>,
     <<"1","6","0","-","1","6","1"," ","h","o","u","r","s">> >>

\* durations with the midpoints 0, 5.5 and 6 hours: 4 and 4.5 hours away from
\* the midpoint of "1-2 hours"
BalanceDurations ==
  << <<"0","-","0"," ","h","o","u","r","s">>,
     <<"4","-","7"," ","h","o","u","r","s">>,
     <<"5","-","7"," ","h","o","u","r","s">> >>

\* descriptions of 20 and of 21 characters
BoundaryDescriptions ==
  << <<"R","e","v","i","e","w"," ","t","h","e"," ","f","u","l","l"," ","p","l","a","n">>,
     <<"R","e","v","i","e","w"," ","t","h","e"," ","f","u","l","l"," ","p","l","a","n","s">> >>

\* ------------------------------------------------- JavaScript value helpers

Undefined == [def |-> FALSE, val |-> <<>>]

Some(v) == [def |-> TRUE, val |-> v]

\* a JavaScript number that may be NaN (0/0)
NaN == [nan |-> TRUE, v |-> 0]

Num(n) == [nan |-> FALSE, v |-> n]

Max(a, b) == IF a >= b THEN a ELSE b

Min(a, b) == IF a <= b THEN a ELSE b

Abs(a) == IF a >= 0 THEN a ELSE 0 - a

\* Array.prototype.forEach / reduce over the indices lo..hi: Op(acc, i) is the
\* state of the callback's closure after element i.  The range is split in
\* halves and acc is evaluated on entry ({acc} = {} is never true), which
\* keeps the evaluation shallow for long plans.
RECURSIVE forEach(_, _, _, _)
forEach(Op(_, _), lo, hi, acc) ==
  IF lo > hi \/ {acc} = {} THEN acc
  ELSE IF lo = hi THEN Op(acc, lo)
  ELSE LET mid == (lo + hi) \div 2
       IN forEach(Op, mid + 1, hi, forEach(Op, lo, mid, acc))

\* position of c in seq (0 when absent)
IndexOf(seq, c) ==
  IF \E i \in 1..Len(seq) : seq[i] = c
    THEN CHOOSE i \in 1..Len(seq) : seq[i] = c /\ \A j \in 1..(i - 1) : seq[j] # c
    ELSE 0

\* String.prototype.toLowerCase on the letters A-Z
LowerOf == [c \in {UpperChars[i] : i \in 1..Len(UpperChars)} |-> LowerChars[IndexOf(UpperChars, c)]]

LowerChar(c) == IF c \in DOMAIN LowerOf THEN LowerOf[c] ELSE c

toLowerCase(s) == [i \in 1..Len(s) |-> LowerChar(s[i])]

\* word occurs in s at position i (1-based)
OccursAt(s, word, i) ==
  /\ i >= 1
  /\ i + Len(word) - 1 <= Len(s)
  /\ \A j \in 1..Len(word) : s[i + j - 1] = word[j]

\* String.prototype.includes
includes(s, word) == \E i \in 1..(Len(s) + 1) : OccursAt(s, word, i)

IsDigit(c) == IndexOf(DigitChars, c) > 0

IsSpace(c) == c = " "

\* last index of the run of digits that starts at i (s[i] is a digit)
RunEnd(s, i) ==
  CHOOSE j \in i..Len(s) :
    /\ \A k \in i..j : IsDigit(s[k])
    /\ (j = Len(s) \/ ~IsDigit(s[j + 1]))

\* parseInt of the digits s[i..j]
RECURSIVE parseInt(_, _, _)
parseInt(s, i, j) ==
  IF j < i THEN 0
  ELSE 10 * parseInt(s, i, j - 1) + (IndexOf(DigitChars, s[j]) - 1)

\* decimal text of a natural number (template-string interpolation)
RECURSIVE NumberToString(_)
NumberToString(n) ==
  IF n < 10 THEN <<DigitChars[n + 1]>>
  ELSE NumberToString(n \div 10) \o <<DigitChars[(n % 10) + 1]>>

\* /(\d+)-(\d+)/ matches s starting at i
RangeMatchAt(s, i) ==
  /\ i <= Len(s)
  /\ IsDigit(s[i])
  /\ LET j == RunEnd(s, i) IN
       /\ j + 2 <= Len(s)
       /\ s[j + 1] = "-"
       /\ IsDigit(s[j + 2])

\* String.prototype.match(/(\d+)-(\d+)/): the leftmost match and its two groups
matchRange(s) ==
  IF \E i \in 1..Len(s) : RangeMatchAt(s, i)
    THEN LET i == CHOOSE i \in 1..Len(s) :
                    RangeMatchAt(s, i) /\ \A k \in 1..(i - 1) : ~RangeMatchAt(s, k)
             j == RunEnd(s, i)
         IN [matched |-> TRUE,
             g1 |-> parseInt(s, i, j),
             g2 |-> parseInt(s, j + 2, RunEnd(s, j + 2))]
    ELSE [matched |-> FALSE, g1 |-> 0, g2 |-> 0]

\* first index >= i of s that holds no whitespace (Len(s) + 1 at the end)
SkipSpaces(s, i) ==
  CHOOSE k \in i..(Len(s) + 1) :
    /\ \A x \in i..(k - 1) : IsSpace(s[x])
    /\ (k = Len(s) + 1 \/ ~IsSpace(s[k]))

\* /(\d+)\s*<unit>/ matches s starting at i
UnitMatchAt(s, unit, i) ==
  /\ i <= Len(s)
  /\ IsDigit(s[i])
  /\ OccursAt(s, unit, SkipSpaces(s, RunEnd(s, i) + 1))

\* String.prototype.match(/(\d+)\s*<unit>/): the leftmost match and its group
matchUnit(s, unit) ==
  IF \E i \in 1..Len(s) : UnitMatchAt(s, unit, i)
    THEN LET i == CHOOSE i \in 1..Len(s) :
                    UnitMatchAt(s, unit, i) /\ \A k \in 1..(i - 1) : ~UnitMatchAt(s, unit, k)
         IN [matched |-> TRUE, g1 |-> parseInt(s, i, RunEnd(s, i))]
    ELSE [matched |-> FALSE, g1 |-> 0]

\* Math.ceil(a / b) for a >= 0, b > 0 (the quotients of the code are exact
\* or far from an integer, so the double equals the real quotient's ceiling)
CeilDiv(a, b) == (a + b - 1) \div b

\* ------------------------------- IEEE-754 double: Math.round((a / b) * 100)
\* a >= 0 and b > 0 are integers.  x = 100a/b is the real value.  When x is
\* not of the form m + 1/2 the two roundings of the double computation
\* (relative error 2^-53 each) cannot carry it across m + 1/2, which is at
\* least 1/(2b) away, and Math.round gives floor(x + 1/2).  When x = m + 1/2
\* the quotient q = fl(a/b) has the 53-bit significand M = round(a*2^e/b)
\* with e = 52 - floor(log2(a/b)); R = a*2^e - M*b is the signed remainder,
\* so 100q = m + 1/2 - 100R/(b*2^e).  The product rounds to a double below
\* m + 1/2 exactly when R > 0 and 100R/(b*2^e) exceeds half the spacing of
\* the doubles just below m + 1/2; Math.round then gives m instead of m + 1.

RECURSIVE Pow2(_)
Pow2(k) == IF k <= 0 THEN 1 ELSE 2 * Pow2(k - 1)

RECURSIVE Pow2Mod(_, _)
Pow2Mod(k, m) == IF k <= 0 THEN 1 % m ELSE (2 * Pow2Mod(k - 1, m)) % m

\* floor(log2(a / b)) for a > 0, b > 0
RECURSIVE FloorLog2Up(_, _, _)
FloorLog2Up(a, b, l) == IF a >= 2 * b * Pow2(l) THEN FloorLog2Up(a, b, l + 1) ELSE l

RECURSIVE FloorLog2Down(_, _, _)
FloorLog2Down(a, b, l) == IF a * Pow2(l) < b THEN FloorLog2Down(a, b, l + 1) ELSE 0 - l

FloorLog2(a, b) == IF a >= b THEN FloorLog2Up(a, b, 0) ELSE FloorLog2Down(a, b, 0)

\* the double (a / b) * 100 lies below the real value m + 1/2 it stands for
ProductBelowHalf(a, b, m) ==
  LET l    == FloorLog2(a, b)
      e    == 52 - l
      r0   == ((a % b) * Pow2Mod(e, b)) % b
      odd  == ((a % (2 * b)) * Pow2Mod(e, 2 * b)) % (2 * b) >= b
      r    == IF 2 * r0 < b \/ (2 * r0 = b /\ ~odd) THEN r0 ELSE r0 - b
      ep   == IF m = 0 THEN 0 - 2 ELSE FloorLog2(m, 1)
      k    == ep - l - 1
  IN /\ r > 0
     /\ IF k >= 0 THEN 100 * r > b * Pow2(k) ELSE 100 * r * Pow2(0 - k) > b

RoundPercent(a, b) ==
  IF (200 * a + b) % (2 * b) # 0
    THEN (200 * a + b) \div (2 * b)
    ELSE LET m == (200 * a - b) \div (2 * b)
         IN IF ProductBelowHalf(a, b, m) THEN m ELSE m + 1

\* ------------------------------------------------------------- data model
\* A plan step: id, title, and the fields a caller may leave out.  A plan
\* element that is undefined or null has obj = FALSE.

MkStep(id, title, description, duration, resources, dependencies) ==
  [obj |-> TRUE, id |-> id, title |-> title, description |-> description,
   duration |-> duration, resources |-> resources, dependencies |-> dependencies]

UndefinedStep ==
  [obj |-> FALSE, id |-> 0, title |-> <<>>, description |-> Undefined,
   duration |-> Undefined, resources |-> Undefined, dependencies |-> Undefined]

\* the plan argument: an array of steps, null, or an object without forEach
ArrayPlan(steps) == [kind |-> "array", steps |-> steps]

NullPlan == [kind |-> "null", steps |-> <<>>]

ObjectPlan == [kind |-> "object", steps |-> <<>>]

Finding(name, index, type, title, details) ==
  [id |-> [name |-> name, index |-> index], type |-> type, title |-> title,
   details |-> details]

\* what a rule function does: returns findings or throws a TypeError
Returned(findings) == [threw |-> FALSE, error |-> "", out |-> findings]

Thrown(message) == [threw |-> TRUE, error |-> message, out |-> <<>>]

\* plan.forEach / plan.reduce throws for a plan that is no array
NotIterable(p) == p.kind # "array"

\* a property read on an undefined or null plan element throws
HasUndefinedStep(p) == \E i \in 1..Len(p.steps) : ~p.steps[i].obj

\* ------------------------------------------------------------ feasibility

\* variant: a description of 20 characters is long enough
feasibleFromTwenty(step) ==
  /\ step.duration.def /\ includes(step.duration.val, S_hours)
  /\ step.resources.def /\ Len(step.resources.val) > 0
  /\ step.description.def /\ Len(step.description.val) >= 20

assessStepFeasibility(step) ==
  /\ step.duration.def /\ includes(step.duration.val, S_hours)
  /\ step.resources.def /\ Len(step.resources.val) > 0
  /\ step.description.def /\ Len(step.description.val) > 20

getFeasibilityFactors(step) ==
  [hasDuration |-> step.duration.def /\ Len(step.duration.val) > 0,
   hasResources |-> step.resources.def /\ Len(step.resources.val) > 0,
   descriptionLength |-> IF step.description.def THEN Len(step.description.val) ELSE 0,
   hasDependencies |-> step.dependencies.def /\ Len(step.dependencies.val) > 0]

StepFeasibilityFinding(step, index) ==
  LET isFeasible == assessStepFeasibility(step) IN
  Finding("feasibility", index,
          IF isFeasible THEN "passed" ELSE "warning",
          S_Step \o NumberToString(index) \o S_Feasibility,
          [stepId |-> step.id,
           assessment |-> IF isFeasible THEN "Feasible" ELSE "Needs Review",
           factors |-> getFeasibilityFactors(step)])

validateFeasibility(p) ==
  IF NotIterable(p) THEN Thrown("plan.forEach is not a function")
  ELSE IF HasUndefinedStep(p)
    THEN Thrown("Cannot read properties of undefined (reading 'duration')")
  ELSE
    LET n == Len(p.steps)
        perStep == [i \in 1..n |-> StepFeasibilityFinding(p.steps[i], i)]
        passedCount == Cardinality({i \in 1..n : perStep[i].type = "passed"})
        overallFeasible == \A i \in 1..n : perStep[i].type = "passed"
    IN Returned(perStep \o
         <<Finding("overall-feasibility", 0,
                   IF overallFeasible THEN "passed" ELSE "warning",
                   T_OverallFeasibility,
                   [assessment |-> IF overallFeasible THEN "Good" ELSE "Needs Attention",
                    percentage |-> IF n = 0 THEN NaN
                                   ELSE Num(RoundPercent(passedCount, n))])>>)

\* -------------------------------------------------------------- resources

\* variant: every added value is kept, also one the Set holds already
AddAlways(set, x) == Append(set, x)

\* Set.prototype.add on a Set kept in insertion order
SetAdd(set, x) == IF \E i \in 1..Len(set) : set[i] = x THEN set ELSE Append(set, x)

AddResources(set, resources) ==
  forEach(LAMBDA acc, j : SetAdd(acc, resources[j]), 1, Len(resources), set)

\* the Set totalResources after the forEach over the steps
totalResources(steps) ==
  forEach(LAMBDA acc, i : IF steps[i].resources.def
                            THEN AddResources(acc, steps[i].resources.val)
                            ELSE acc,
          1, Len(steps), <<>>)

ContainsAny(text, keywords) ==
  \E k \in 1..Len(keywords) : includes(text, keywords[k])

IsCritical(resource) == ContainsAny(toLowerCase(resource), criticalKeywords)

AddCritical(set, resources) ==
  forEach(LAMBDA acc, j : IF IsCritical(resources[j]) THEN SetAdd(acc, resources[j]) ELSE acc,
          1, Len(resources), set)

identifyCriticalResources(steps) ==
  forEach(LAMBDA acc, i : IF steps[i].resources.def
                            THEN AddCritical(acc, steps[i].resources.val)
                            ELSE acc,
          1, Len(steps), <<>>)

validateResources(p) ==
  IF NotIterable(p) THEN Thrown("plan.forEach is not a function")
  ELSE IF HasUndefinedStep(p)
    THEN Thrown("Cannot read properties of undefined (reading 'resources')")
  ELSE
    LET resourceCount == Len(totalResources(p.steps))
        resourceStatus == IF resourceCount <= 10 THEN "passed" ELSE "warning"
        criticalResources == identifyCriticalResources(p.steps)
    IN Returned(
         <<Finding("resource-count", 0, resourceStatus, T_ResourceRequirements,
                   [totalResources |-> resourceCount,
                    assessment |-> IF resourceCount <= 10 THEN "Reasonable" ELSE "High",
                    recommendation |-> IF resourceCount > 10
                                         THEN "Consider resource consolidation" ELSE "Good"])>>
         \o (IF Len(criticalResources) > 0
               THEN <<Finding("critical-resources", 0, "warning", T_CriticalResources,
                              [resources |-> criticalResources])>>
               ELSE <<>>))

\* --------------------------------------------------------------- timeline
\* Durations are kept in half hours (twice the value of the code's number),
\* so that the midpoint (a + b) / 2 stays an integer.

MissingDuration(p) == \E i \in 1..Len(p.steps) : ~p.steps[i].duration.def

\* twice the step's contribution to totalHours
StepHalfHours(step) ==
  LET match == matchRange(step.duration.val) IN
  IF match.matched THEN match.g1 + match.g2 ELSE 4

\* twice totalHours after the forEach
totalHalfHours(steps) ==
  forEach(LAMBDA acc, i : acc + StepHalfHours(steps[i]), 1, Len(steps), 0)

\* variant: a total of exactly 8 hours is already reported in days
durationDaysFromEight(steps) ==
  LET total2 == totalHalfHours(steps) IN
  IF total2 < 16 THEN NumberToString(CeilDiv(total2, 2)) \o S_hoursUnit
  ELSE IF total2 <= 80 THEN NumberToString(CeilDiv(total2, 16)) \o S_daysUnit
  ELSE NumberToString(CeilDiv(total2, 80)) \o S_weeksUnit

calculatePlanDuration(steps) ==
  LET total2 == totalHalfHours(steps) IN
  IF total2 <= 16 THEN NumberToString(CeilDiv(total2, 2)) \o S_hoursUnit
  ELSE IF total2 <= 80 THEN NumberToString(CeilDiv(total2, 16)) \o S_daysUnit
  ELSE NumberToString(CeilDiv(total2, 80)) \o S_weeksUnit

\* variant: ten steps already count as many
assessTimelineFromTen(duration, stepCount) ==
  LET weeksMatch == matchUnit(duration, S_weeks) IN
  IF weeksMatch.matched /\ weeksMatch.g1 > 4
    THEN [status |-> "warning", assessment |-> "Long"]
  ELSE IF stepCount >= 10
    THEN [status |-> "warning", assessment |-> "Complex"]
  ELSE [status |-> "passed", assessment |-> "Good"]

assessTimeline(duration, stepCount) ==
  LET weeksMatch == matchUnit(duration, S_weeks) IN
  IF weeksMatch.matched /\ weeksMatch.g1 > 4
    THEN [status |-> "warning", assessment |-> "Long"]
  ELSE IF stepCount > 10
    THEN [status |-> "warning", assessment |-> "Complex"]
  ELSE [status |-> "passed", assessment |-> "Good"]

\* one callback of identifyUnbalancedDurations: before holds previousDuration
\* (null, or twice the midpoint) and the list so far
UnbalancedStep(steps, before, i) ==
  LET match == matchRange(steps[i].duration.val)
      avg2 == match.g1 + match.g2
      \* previousDuration && ...: null and 0 are falsy
      truthy == ~before.previous.isNull /\ before.previous.half # 0
  IN IF match.matched
       THEN [previous |-> [isNull |-> FALSE, half |-> avg2],
             unbalanced |->
               IF truthy /\ Abs(avg2 - before.previous.half) > 8
                 THEN Append(before.unbalanced,
                             [step |-> i, title |-> steps[i].title,
                              duration |-> steps[i].duration.val,
                              differenceHalves |-> Abs(avg2 - before.previous.half)])
                 ELSE before.unbalanced]
       ELSE before

identifyUnbalancedDurations(steps) ==
  forEach(LAMBDA acc, i : UnbalancedStep(steps, acc, i), 1, Len(steps),
          [previous |-> [isNull |-> TRUE, half |-> 0], unbalanced |-> <<>>]).unbalanced

validateTimeline(p) ==
  IF NotIterable(p) THEN Thrown("plan.forEach is not a function")
  ELSE IF HasUndefinedStep(p)
    THEN Thrown("Cannot read properties of undefined (reading 'duration')")
  ELSE IF MissingDuration(p)
    THEN Thrown("Cannot read properties of undefined (reading 'match')")
  ELSE
    LET totalDuration == calculatePlanDuration(p.steps)
        timelineStatus == assessTimeline(totalDuration, Len(p.steps))
        unbalancedSteps == identifyUnbalancedDurations(p.steps)
    IN Returned(
         <<Finding("timeline-assessment", 0, timelineStatus.status, T_TimelineAssessment,
                   [totalDuration |-> totalDuration,
                    steps |-> Len(p.steps),
                    assessment |-> timelineStatus.assessment])>>
         \o (IF Len(unbalancedSteps) > 0
               THEN <<Finding("duration-balance", 0, "warning", T_DurationBalance,
                              [steps |-> unbalancedSteps])>>
               ELSE <<>>))

\* ----------------------------------------------------------- dependencies
\* The graph object: graph[step.id] = step.dependencies || [].  Its keys are
\* integer-like, so Object.keys / Object.entries list them in ascending
\* numeric order whatever the order of the plan; a later step with the same
\* id overwrites the earlier entry.  Keys are strings in the code ("1") and
\* dependency ids numbers (1); property lookup coerces both to the same key,
\* and the model writes both as the integer.

StepDependencies(step) == IF step.dependencies.def THEN step.dependencies.val ELSE <<>>

\* the ids in the order of their first step
FirstOccurrences(steps) ==
  forEach(LAMBDA acc, i : SetAdd(acc, steps[i].id), 1, Len(steps), <<>>)

buildDependencyGraph(steps) ==
  LET ids == {steps[i].id : i \in 1..Len(steps)}
      last(id) == CHOOSE i \in 1..Len(steps) :
                    steps[i].id = id /\ \A j \in (i + 1)..Len(steps) : steps[j].id # id
  IN [keys |-> SortSeq(FirstOccurrences(steps), LAMBDA a, b : a < b),
      deps |-> [id \in ids |-> StepDependencies(steps[last(id)])]]

\* variant: an id without an entry in the graph is given an edge to itself
NeighborsOrSelf(graph, node) ==
  IF node \in DOMAIN graph.deps THEN graph.deps[node] ELSE <<node>>

\* graph[node] || []
Neighbors(graph, node) ==
  IF node \in DOMAIN graph.deps THEN graph.deps[node] ELSE <<>>

\* dfs of detectCircularDependencies; st holds the closure's visited,
\* recursionStack and cycles.  A "return true" leaves recursionStack[node] set.
RECURSIVE dfs(_, _, _, _)
RECURSIVE dfsNeighbors(_, _, _, _, _)
dfs(graph, node, path, st) ==
  IF node \notin st.visited
    THEN LET entered == [st EXCEPT !.visited = @ \cup {node},
                                   !.recursionStack = @ \cup {node}]
             r == dfsNeighbors(graph, node, path, 1, entered)
         IN IF r.found THEN r
            ELSE [found |-> FALSE,
                  st |-> [r.st EXCEPT !.recursionStack = @ \ {node}]]
    ELSE [found |-> FALSE, st |-> [st EXCEPT !.recursionStack = @ \ {node}]]

dfsNeighbors(graph, node, path, i, st) ==
  LET neighbors == Neighbors(graph, node) IN
  IF i > Len(neighbors) THEN [found |-> FALSE, st |-> st]
  ELSE LET neighbor == neighbors[i] IN
    IF neighbor \notin st.visited
      THEN LET r == dfs(graph, neighbor, Append(path, node), st)
           IN IF r.found THEN r ELSE dfsNeighbors(graph, node, path, i + 1, r.st)
    ELSE IF neighbor \in st.recursionStack
      THEN [found |-> TRUE,
            st |-> [st EXCEPT !.cycles = Append(@, path \o <<node, neighbor>>)]]
    ELSE dfsNeighbors(graph, node, path, i + 1, st)

\* Object.keys(graph).forEach(node => { if (!visited[node]) dfs(node, []) })
dfsRoots(graph) ==
  forEach(LAMBDA st, i : IF graph.keys[i] \notin st.visited
                           THEN dfs(graph, graph.keys[i], <<>>, st).st
                           ELSE st,
          1, Len(graph.keys),
          [visited |-> {}, recursionStack |-> {}, cycles |-> <<>>])

\* variant: only the first key is taken as a root
detectFromFirstKey(graph) ==
  IF Len(graph.keys) = 0 THEN <<>>
  ELSE dfs(graph, graph.keys[1], <<>>,
           [visited |-> {}, recursionStack |-> {}, cycles |-> <<>>]).st.cycles

detectCircularDependencies(graph) == dfsRoots(graph).cycles

\* variant: two dependencies already count as complex
complexFromTwo(graph) ==
  forEach(LAMBDA acc, i :
            IF Len(graph.deps[graph.keys[i]]) >= 2
              THEN Append(acc, [step |-> graph.keys[i],
                                dependencies |-> Len(graph.deps[graph.keys[i]]),
                                assessment |-> "Complex"])
              ELSE acc,
          1, Len(graph.keys), <<>>)

identifyComplexDependencies(graph) ==
  forEach(LAMBDA acc, i :
            IF Len(graph.deps[graph.keys[i]]) > 2
              THEN Append(acc, [step |-> graph.keys[i],
                                dependencies |-> Len(graph.deps[graph.keys[i]]),
                                assessment |-> "Complex"])
              ELSE acc,
          1, Len(graph.keys), <<>>)

countTotalDependencies(steps) ==
  forEach(LAMBDA total, i : total + Len(StepDependencies(steps[i])), 1, Len(steps), 0)

\* calculateDepth(node, depth, visited): the largest depth it assigns to
\* maxDepth (0 when it returns at once); every neighbour gets its own copy of
\* visited.  visited is a Set, which tells the key "1" that Object.keys
\* yields (a string) from the dependency id 1 (a number): a node is its id
\* together with key, TRUE for the root taken from Object.keys
RECURSIVE calculateDepth(_, _, _, _)
RECURSIVE calculateDepthNeighbors(_, _, _, _, _)
calculateDepth(graph, node, depth, visited) ==
  IF node \in visited THEN 0
  ELSE Max(depth, calculateDepthNeighbors(graph, node, depth, visited \cup {node}, 1))

calculateDepthNeighbors(graph, node, depth, visited, i) ==
  LET neighbors == Neighbors(graph, node.id) IN
  IF i > Len(neighbors) THEN 0
  ELSE Max(calculateDepth(graph, [id |-> neighbors[i], key |-> FALSE], depth + 1, visited),
           calculateDepthNeighbors(graph, node, depth, visited, i + 1))

\* maxDepth after the forEach over the keys, from the start value given
MaxDepthFrom(graph, start) ==
  forEach(LAMBDA maxDepth, i :
            Max(maxDepth, calculateDepth(graph, [id |-> graph.keys[i], key |-> TRUE], 1, {})),
          1, Len(graph.keys), start)

\* variant: maxDepth starts at 1
maxDepthFromOne(graph) == MaxDepthFrom(graph, 1)

calculateMaxDependencyDepth(graph) == MaxDepthFrom(graph, 0)

\* variant: the overview looks at the complex dependencies alone
validateDependenciesComplexOnly(p) ==
  IF NotIterable(p) THEN Thrown("plan.forEach is not a function")
  ELSE IF HasUndefinedStep(p)
    THEN Thrown("Cannot read properties of undefined (reading 'id')")
  ELSE
    LET dependencyGraph == buildDependencyGraph(p.steps)
        circularDeps == detectCircularDependencies(dependencyGraph)
        complexDeps == identifyComplexDependencies(dependencyGraph)
        depStatus == IF Len(complexDeps) = 0 THEN "passed" ELSE "warning"
    IN Returned(
         (IF Len(circularDeps) > 0
            THEN <<Finding("circular-dependencies", 0, "failed", T_CircularDependencies,
                           [chains |-> circularDeps])>>
            ELSE <<>>)
         \o (IF Len(complexDeps) > 0
               THEN <<Finding("complex-dependencies", 0, "warning", T_ComplexDependencies,
                              [steps |-> complexDeps])>>
               ELSE <<>>)
         \o <<Finding("dependency-overview", 0, depStatus, T_DependencyStructure,
                      [totalDependencies |-> countTotalDependencies(p.steps),
                       maxDepth |-> calculateMaxDependencyDepth(dependencyGraph),
                       assessment |-> IF depStatus = "passed" THEN "Good" ELSE "Needs Review"])>>)

validateDependencies(p) ==
  IF NotIterable(p) THEN Thrown("plan.forEach is not a function")
  ELSE IF HasUndefinedStep(p)
    THEN Thrown("Cannot read properties of undefined (reading 'id')")
  ELSE
    LET dependencyGraph == buildDependencyGraph(p.steps)
        circularDeps == detectCircularDependencies(dependencyGraph)
        complexDeps == identifyComplexDependencies(dependencyGraph)
        depStatus == IF Len(complexDeps) = 0 /\ Len(circularDeps) = 0
                       THEN "passed" ELSE "warning"
    IN Returned(
         (IF Len(circularDeps) > 0
            THEN <<Finding("circular-dependencies", 0, "failed", T_CircularDependencies,
                           [chains |-> circularDeps])>>
            ELSE <<>>)
         \o (IF Len(complexDeps) > 0
               THEN <<Finding("complex-dependencies", 0, "warning", T_ComplexDependencies,
                              [steps |-> complexDeps])>>
               ELSE <<>>)
         \o <<Finding("dependency-overview", 0, depStatus, T_DependencyStructure,
                      [totalDependencies |-> countTotalDependencies(p.steps),
                       maxDepth |-> calculateMaxDependencyDepth(dependencyGraph),
                       assessment |-> IF depStatus = "passed" THEN "Good" ELSE "Needs Review"])>>)

\* ------------------------------------------------------------------ risks

\* `${step.title} ${step.description}`.toLowerCase()
StepText(step) ==
  toLowerCase(step.title \o <<" ">> \o
              (IF step.description.def THEN step.description.val ELSE S_undefined))

\* the entries one keyword list adds for a step with the text stepText
FactorRisks(step, stepText, index, factors, level) ==
  forEach(LAMBDA risks, k :
            IF includes(stepText, factors[k])
              THEN Append(risks, [step |-> index, title |-> step.title,
                                  risk |-> factors[k], level |-> level])
              ELSE risks,
          1, Len(factors), <<>>)

\* variant: the medium list is consulted only when no high keyword matched
analyzeFirstLevelOnly(step, index) ==
  LET stepText == StepText(step)
      high == FactorRisks(step, stepText, index + 1, riskFactorsHigh, "high")
  IN IF Len(high) > 0 THEN high
     ELSE FactorRisks(step, stepText, index + 1, riskFactorsMedium, "medium")

\* index is the forEach index (0-based) of the code
analyzeStepRisks(step, index) ==
  LET stepText == StepText(step) IN
  FactorRisks(step, stepText, index + 1, riskFactorsHigh, "high")
  \o FactorRisks(step, stepText, index + 1, riskFactorsMedium, "medium")

identifyRisks(steps) ==
  forEach(LAMBDA risks, i : risks \o analyzeStepRisks(steps[i], i - 1), 1, Len(steps), <<>>)

HasBackup(resources) ==
  \E i \in 1..Len(resources) : includes(toLowerCase(resources[i]), S_backup)

StepMitigationPoints(step) ==
  (IF step.description.def /\ includes(toLowerCase(step.description.val), S_mitigat)
     THEN 20 ELSE 0)
  + (IF step.resources.def /\ HasBackup(step.resources.val) THEN 15 ELSE 0)
  + (IF step.dependencies.def /\ Len(step.dependencies.val) < 3 THEN 10 ELSE 0)

\* mitigationScore after the forEach
MitigationPoints(steps) ==
  forEach(LAMBDA points, i : points + StepMitigationPoints(steps[i]), 1, Len(steps), 0)

\* Math.min(100, Math.round((mitigationScore / (totalFactors * 10)) * 100));
\* 0 / 0 is NaN for a plan without steps, and Math.min(100, NaN) is NaN
assessRiskMitigation(steps) ==
  LET totalFactors == 3 * Len(steps) IN
  IF totalFactors = 0 THEN NaN
  ELSE Num(Min(100, RoundPercent(MitigationPoints(steps), totalFactors * 10)))

\* a comparison with NaN is false
AtLeast(number, bound) == ~number.nan /\ number.v >= bound

validateRisks(p) ==
  IF NotIterable(p) THEN Thrown("plan.forEach is not a function")
  ELSE IF HasUndefinedStep(p)
    THEN Thrown("Cannot read properties of undefined (reading 'title')")
  ELSE
    LET risks == identifyRisks(p.steps)
        highRisks == SelectSeq(risks, LAMBDA r : r.level = "high")
        mediumRisks == SelectSeq(risks, LAMBDA r : r.level = "medium")
        mitigationScore == assessRiskMitigation(p.steps)
        good == AtLeast(mitigationScore, 70)
    IN Returned(
         (IF Len(highRisks) > 0
            THEN <<Finding("high-risks", 0, "warning", T_HighRisksIdentified,
                           [risks |-> highRisks])>>
            ELSE <<>>)
         \o (IF Len(mediumRisks) > 0
               THEN <<Finding("medium-risks", 0, "warning", T_MediumRisks,
                              [risks |-> mediumRisks])>>
               ELSE <<>>)
         \o <<Finding("risk-mitigation", 0, IF good THEN "passed" ELSE "warning",
                      T_RiskMitigation,
                      [score |-> mitigationScore,
                       assessment |-> IF good THEN "Good" ELSE "Needs Improvement"])>>)

\* ---------------------------------------------------------------- scoring

\* variant: a warning weighs as much as a pass
WeightWarningAsPassed(type) == IF type = "failed" THEN 0 ELSE 2

\* weights[validation.type] || 0, doubled: passed 1, warning 0.5, failed 0
WeightHalves(type) ==
  IF type = "passed" THEN 2 ELSE IF type = "warning" THEN 1 ELSE 0

\* twice the totalScore of the reduce
totalScoreHalves(vs) ==
  forEach(LAMBDA total, i : total + WeightHalves(vs[i].type), 1, Len(vs), 0)

\* variant: Math.floor(totalScore / maxScore) * 100
scoreFloorFirst(vs) ==
  IF Len(vs) = 0 THEN NaN
  ELSE Num(100 * (totalScoreHalves(vs) \div (2 * Len(vs))))

\* Math.round((totalScore / maxScore) * 100)
calculateValidationScore(vs) ==
  IF Len(vs) = 0 THEN NaN
  ELSE Num(RoundPercent(totalScoreHalves(vs), 2 * Len(vs)))

CountType(vs, type) == Cardinality({i \in 1..Len(vs) : vs[i].type = type})

LessThan(number, bound) == ~number.nan /\ number.v < bound

generateValidationSummary(vs, score) ==
  [score |-> score,
   status |-> IF LessThan(score, 60) THEN "Needs Major Improvements"
              ELSE IF LessThan(score, 80) THEN "Needs Some Improvements"
              ELSE IF LessThan(score, 90) THEN "Satisfactory"
              ELSE "Good",
   breakdown |-> [passed |-> CountType(vs, "passed"),
                  warnings |-> CountType(vs, "warning"),
                  failed |-> CountType(vs, "failed")],
   overall |-> IF AtLeast(score, 80) THEN "Plan is generally valid" ELSE "Plan needs review"]

TitledWarnings(vs, word) ==
  {i \in 1..Len(vs) : includes(vs[i].title, word) /\ vs[i].type = "warning"}

\* variant: the timeline entry is emitted before the resource entry
recommendationsTimelineFirst(vs) ==
  LET warnings == CountType(vs, "warning")
      failures == CountType(vs, "failed")
  IN (IF failures > 0
        THEN <<[priority |-> "High",
                action |-> "Address failed validations before proceeding",
                count |-> failures]>>
        ELSE <<>>)
     \o (IF warnings > 3
           THEN <<[priority |-> "Medium",
                   action |-> "Review and address warning validations",
                   count |-> warnings]>>
           ELSE <<>>)
     \o (IF TitledWarnings(vs, S_Timeline) # {}
           THEN <<[priority |-> "Medium",
                   action |-> "Review timeline estimates and dependencies",
                   count |-> 0]>>
           ELSE <<>>)
     \o (IF TitledWarnings(vs, S_Resource) # {}
           THEN <<[priority |-> "Medium",
                   action |-> "Review resource allocation and availability",
                   count |-> 0]>>
           ELSE <<>>)

generateRecommendations(vs) ==
  LET warnings == CountType(vs, "warning")
      failures == CountType(vs, "failed")
  IN (IF failures > 0
        THEN <<[priority |-> "High",
                action |-> "Address failed validations before proceeding",
                count |-> failures]>>
        ELSE <<>>)
     \o (IF warnings > 3
           THEN <<[priority |-> "Medium",
                   action |-> "Review and address warning validations",
                   count |-> warnings]>>
           ELSE <<>>)
     \o (IF TitledWarnings(vs, S_Resource) # {}
           THEN <<[priority |-> "Medium",
                   action |-> "Review resource allocation and availability",
                   count |-> 0]>>
           ELSE <<>>)
     \o (IF TitledWarnings(vs, S_Timeline) # {}
           THEN <<[priority |-> "Medium",
                   action |-> "Review timeline estimates and dependencies",
                   count |-> 0]>>
           ELSE <<>>)

getFallbackValidations ==
  <<[id |-> [name |-> "fallback-1", index |-> 0], type |-> "passed",
     title |-> T_BasicStructure],
    [id |-> [name |-> "fallback-2", index |-> 0], type |-> "warning",
     title |-> T_LimitedDetail]>>

\* ---------------------------------------------------------------- planner
\* PlannerAgent (src/agents/planner.js): the plans planTask hands to the
\* validator.  Of a step the fields the validator reads are kept (id, title,
\* description, duration, resources, dependencies).

\* the titles of generateStepTitle, by task type
titles ==
  [marketing |->
     << <<"M","a","r","k","e","t"," ","R","e","s","e","a","r","c","h"," ","&"," ","A","n","a","l","y","s","i","s">>,
        <<"T","a","r","g","e","t"," ","A","u","d","i","e","n","c","e"," ","D","e","f","i","n","i","t","i","o","n">>,
        <<"S","t","r","a","t","e","g","y"," ","D","e","v","e","l","o","p","m","e","n","t">>,
        <<"C","h","a","n","n","e","l"," ","S","e","l","e","c","t","i","o","n">>,
        <<"C","a","m","p","a","i","g","n"," ","C","r","e","a","t","i","o","n">>,
        <<"P","e","r","f","o","r","m","a","n","c","e"," ","T","r","a","c","k","i","n","g">> >>,
   development |->
     << <<"R","e","q","u","i","r","e","m","e","n","t","s"," ","G","a","t","h","e","r","i","n","g">>,
        <<"S","y","s","t","e","m"," ","D","e","s","i","g","n">>,
        <<"T","e","c","h","n","o","l","o","g","y"," ","S","t","a","c","k"," ","S","e","l","e","c","t","i","o","n">>,
        <<"D","e","v","e","l","o","p","m","e","n","t"," ","S","e","t","u","p">>,
        <<"C","o","r","e"," ","I","m","p","l","e","m","e","n","t","a","t","i","o","n">>,
        <<"T","e","s","t","i","n","g"," ","&"," ","D","e","p","l","o","y","m","e","n","t">> >>,
   strategy |->
     << <<"S","i","t","u","a","t","i","o","n"," ","A","n","a","l","y","s","i","s">>,
        <<"G","o","a","l"," ","S","e","t","t","i","n","g">>,
        <<"S","t","r","a","t","e","g","y"," ","F","o","r","m","u","l","a","t","i","o","n">>,
        <<"A","c","t","i","o","n"," ","P","l","a","n","n","i","n","g">>,
        <<"R","e","s","o","u","r","c","e"," ","A","l","l","o","c","a","t","i","o","n">>,
        <<"I","m","p","l","e","m","e","n","t","a","t","i","o","n"," ","R","o","a","d","m","a","p">> >>,
   general |->
     << <<"T","a","s","k"," ","A","n","a","l","y","s","i","s"," ","&"," ","S","c","o","p","i","n","g">>,
        <<"R","e","s","e","a","r","c","h"," ","&"," ","I","n","f","o","r","m","a","t","i","o","n"," ","G","a","t","h","e","r","i","n","g">>,
        <<"P","l","a","n","n","i","n","g"," ","&"," ","S","t","r","a","t","e","g","y">>,
        <<"E","x","e","c","u","t","i","o","n"," ","&"," ","I","m","p","l","e","m","e","n","t","a","t","i","o","n">>,
        <<"R","e","v","i","e","w"," ","&"," ","Q","u","a","l","i","t","y"," ","A","s","s","u","r","a","n","c","e">>,
        <<"D","o","c","u","m","e","n","t","a","t","i","o","n"," ","&"," ","D","e","l","i","v","e","r","y">> >>]

\* the baseDescriptions of generateStepDescription; the first one quotes the
\* first 50 characters of the task
baseDescriptions(task) ==
  << <<"A","n","a","l","y","z","e"," ","t","h","e"," ","r","e","q","u","i","r","e","m","e","n","t","s"," ","a","n","d"," ","s","c","o","p","e"," ","o","f",":"," ","\"">>
       \o SubSeq(task, 1, Min(50, Len(task))) \o <<".",".",".","\"">>,
     <<"R","e","s","e","a","r","c","h"," ","r","e","l","e","v","a","n","t"," ","i","n","f","o","r","m","a","t","i","o","n",","," ","b","e","s","t"," ","p","r","a","c","t","i","c","e","s",","," ","a","n","d"," ","e","x","i","s","t","i","n","g"," ","s","o","l","u","t","i","o","n","s">>,
     <<"D","e","v","e","l","o","p"," ","a"," ","c","o","m","p","r","e","h","e","n","s","i","v","e"," ","p","l","a","n"," ","a","n","d"," ","s","t","r","a","t","e","g","y"," ","f","o","r"," ","e","x","e","c","u","t","i","o","n">>,
     <<"I","m","p","l","e","m","e","n","t"," ","t","h","e"," ","p","l","a","n","n","e","d"," ","a","p","p","r","o","a","c","h"," ","w","i","t","h"," ","r","e","g","u","l","a","r"," ","p","r","o","g","r","e","s","s"," ","c","h","e","c","k","s">>,
     <<"R","e","v","i","e","w"," ","o","u","t","c","o","m","e","s",","," ","g","a","t","h","e","r"," ","f","e","e","d","b","a","c","k",","," ","a","n","d"," ","m","a","k","e"," ","n","e","c","e","s","s","a","r","y"," ","a","d","j","u","s","t","m","e","n","t","s">>,
     <<"D","o","c","u","m","e","n","t"," ","r","e","s","u","l","t","s"," ","a","n","d"," ","p","r","e","p","a","r","e"," ","f","o","r"," ","d","e","l","i","v","e","r","y"," ","o","r"," ","n","e","x","t"," ","p","h","a","s","e","s">> >>

\* the durations of generateStepDuration for the step indices 0..5
durations ==
  << <<"1","-","2"," ","h","o","u","r","s">>,
     <<"2","-","3"," ","h","o","u","r","s">>,
     <<"3","-","4"," ","h","o","u","r","s">>,
     <<"4","-","6"," ","h","o","u","r","s">>,
     <<"2","-","3"," ","h","o","u","r","s">>,
     <<"1","-","2"," ","h","o","u","r","s">> >>

\* the resourceSets of generateStepResources, by task type
resourceSets ==
  [marketing |->
     << << <<"M","a","r","k","e","t"," ","R","e","s","e","a","r","c","h"," ","T","o","o","l","s">>, <<"A","n","a","l","y","t","i","c","s"," ","P","l","a","t","f","o","r","m","s">> >>,
        << <<"A","u","d","i","e","n","c","e"," ","P","e","r","s","o","n","a"," ","T","e","m","p","l","a","t","e","s">>, <<"D","e","m","o","g","r","a","p","h","i","c"," ","D","a","t","a">> >>,
        << <<"S","t","r","a","t","e","g","y"," ","F","r","a","m","e","w","o","r","k","s">>, <<"C","o","m","p","e","t","i","t","i","v","e"," ","A","n","a","l","y","s","i","s">> >>,
        << <<"C","h","a","n","n","e","l"," ","A","n","a","l","y","t","i","c","s">>, <<"B","u","d","g","e","t"," ","P","l","a","n","n","i","n","g"," ","T","o","o","l","s">> >>,
        << <<"C","r","e","a","t","i","v","e"," ","T","o","o","l","s">>, <<"C","o","n","t","e","n","t"," ","M","a","n","a","g","e","m","e","n","t"," ","S","y","s","t","e","m","s">> >>,
        << <<"K","P","I"," ","D","a","s","h","b","o","a","r","d","s">>, <<"R","e","p","o","r","t","i","n","g"," ","T","o","o","l","s">> >> >>,
   development |->
     << << <<"R","e","q","u","i","r","e","m","e","n","t","s"," ","D","o","c","u","m","e","n","t","s">>, <<"U","s","e","r"," ","S","t","o","r","i","e","s">> >>,
        << <<"D","e","s","i","g","n"," ","T","o","o","l","s">>, <<"A","r","c","h","i","t","e","c","t","u","r","e"," ","D","i","a","g","r","a","m","s">> >>,
        << <<"T","e","c","h","n","o","l","o","g","y"," ","E","v","a","l","u","a","t","i","o","n"," ","M","a","t","r","i","x">>, <<"P","r","o","o","f"," ","o","f"," ","C","o","n","c","e","p","t","s">> >>,
        << <<"D","e","v","e","l","o","p","m","e","n","t"," ","E","n","v","i","r","o","n","m","e","n","t">>, <<"V","e","r","s","i","o","n"," ","C","o","n","t","r","o","l">> >>,
        << <<"C","o","d","i","n","g"," ","S","t","a","n","d","a","r","d","s">>, <<"D","e","v","e","l","o","p","m","e","n","t"," ","F","r","a","m","e","w","o","r","k","s">> >>,
        << <<"T","e","s","t","i","n","g"," ","F","r","a","m","e","w","o","r","k","s">>, <<"D","e","p","l","o","y","m","e","n","t"," ","P","i","p","e","l","i","n","e","s">> >> >>,
   general |->
     << << <<"A","n","a","l","y","s","i","s"," ","T","e","m","p","l","a","t","e","s">>, <<"D","o","c","u","m","e","n","t","a","t","i","o","n"," ","T","o","o","l","s">> >>,
        << <<"R","e","s","e","a","r","c","h"," ","D","a","t","a","b","a","s","e","s">>, <<"I","n","f","o","r","m","a","t","i","o","n"," ","S","o","u","r","c","e","s">> >>,
        << <<"P","l","a","n","n","i","n","g"," ","F","r","a","m","e","w","o","r","k","s">>, <<"P","r","o","j","e","c","t"," ","M","a","n","a","g","e","m","e","n","t"," ","T","o","o","l","s">> >>,
        << <<"E","x","e","c","u","t","i","o","n"," ","C","h","e","c","k","l","i","s","t","s">>, <<"P","r","o","g","r","e","s","s"," ","T","r","a","c","k","i","n","g">> >>,
        << <<"Q","u","a","l","i","t","y"," ","A","s","s","u","r","a","n","c","e"," ","C","h","e","c","k","l","i","s","t","s">>, <<"F","e","e","d","b","a","c","k"," ","M","e","c","h","a","n","i","s","m","s">> >>,
        << <<"D","o","c","u","m","e","n","t","a","t","i","o","n"," ","T","e","m","p","l","a","t","e","s">>, <<"P","r","e","s","e","n","t","a","t","i","o","n"," ","T","o","o","l","s">> >> >>]

\* this.templates: the number of steps of each template
templates == [simple |-> [steps |-> 3], medium |-> [steps |-> 5], complex |-> [steps |-> 7]]

analyzeTaskType(task) ==
  LET taskLower == toLowerCase(task) IN
  IF includes(taskLower, <<"m","a","r","k","e","t","i","n","g">>)
     \/ includes(taskLower, <<"c","a","m","p","a","i","g","n">>)
    THEN "marketing"
  ELSE IF includes(taskLower, <<"d","e","v","e","l","o","p">>)
          \/ includes(taskLower, <<"a","p","p">>)
          \/ includes(taskLower, <<"s","o","f","t","w","a","r","e">>)
    THEN "development"
  ELSE IF includes(taskLower, <<"p","l","a","n">>)
          \/ includes(taskLower, <<"s","t","r","a","t","e","g","y">>)
    THEN "strategy"
  ELSE IF includes(taskLower, <<"a","n","a","l","y">>)
          \/ includes(taskLower, <<"r","e","s","e","a","r","c","h">>)
    THEN "analysis"
  ELSE IF includes(taskLower, <<"d","e","s","i","g","n">>)
          \/ includes(taskLower, <<"c","r","e","a","t","e">>)
    THEN "design"
  ELSE "general"

\* titles[taskType] || titles.general, indexed by stepIndex % length
generateStepTitle(stepIndex, taskType) ==
  LET typeTitles == IF taskType \in DOMAIN titles THEN titles[taskType] ELSE titles.general
  IN typeTitles[(stepIndex % Len(typeTitles)) + 1]

generateStepDescription(stepIndex, task, taskType) ==
  baseDescriptions(task)[(stepIndex % Len(baseDescriptions(task))) + 1]

\* durations[stepIndex] || "2-3 hours"
generateStepDuration(stepIndex, taskType) ==
  IF stepIndex + 1 \in DOMAIN durations THEN durations[stepIndex + 1] ELSE <<"2","-","3"," ","h","o","u","r","s">>

generateStepResources(stepIndex, taskType) ==
  LET resources == IF taskType \in DOMAIN resourceSets
                     THEN resourceSets[taskType] ELSE resourceSets.general
  IN resources[(stepIndex % Len(resources)) + 1]

\* variant: the dependency names the new step's own id (dependencies: [i + 1])
generatePlanOwnId(task, taskType, template) ==
  [n \in 1..template.steps |->
     MkStep(n, generateStepTitle(n - 1, taskType),
            Some(generateStepDescription(n - 1, task, taskType)),
            Some(generateStepDuration(n - 1, taskType)),
            Some(generateStepResources(n - 1, taskType)),
            Some(IF n - 1 > 0 THEN <<n>> ELSE <<>>))]

\* the loop of generatePlan: n - 1 is its index i, n the id i + 1 of the step
generatePlan(task, taskType, template) ==
  [n \in 1..template.steps |->
     MkStep(n, generateStepTitle(n - 1, taskType),
            Some(generateStepDescription(n - 1, task, taskType)),
            Some(generateStepDuration(n - 1, taskType)),
            Some(generateStepResources(n - 1, taskType)),
            Some(IF n - 1 > 0 THEN <<n - 1>> ELSE <<>>))]

\* the plan of planTask's try block: this.templates[complexity] ||
\* this.templates.medium; enhanceWithAI adds aiInsights, priority and
\* riskLevel to each step and keeps the other fields
planTask(task, complexity) ==
  generatePlan(task, analyzeTaskType(task),
               IF complexity \in DOMAIN templates THEN templates[complexity]
               ELSE templates.medium)

getFallbackPlan(task) ==
  << MkStep(1, <<"I","n","i","t","i","a","l"," ","A","n","a","l","y","s","i","s">>,
            Some(<<"A","n","a","l","y","z","e"," ","t","h","e"," ","t","a","s","k",":"," ">>
                 \o SubSeq(task, 1, Min(100, Len(task)))),
            Some(<<"1","-","2"," ","h","o","u","r","s">>),
            Some(<< <<"B","a","s","i","c"," ","A","n","a","l","y","s","i","s"," ","T","o","o","l","s">> >>), Some(<<>>)),
     MkStep(2, <<"E","x","e","c","u","t","i","o","n"," ","P","l","a","n","n","i","n","g">>,
            Some(<<"P","l","a","n"," ","t","h","e"," ","e","x","e","c","u","t","i","o","n"," ","a","p","p","r","o","a","c","h"," ","a","n","d"," ","m","e","t","h","o","d","o","l","o","g","y">>),
            Some(<<"2","-","3"," ","h","o","u","r","s">>),
            Some(<< <<"P","l","a","n","n","i","n","g"," ","F","r","a","m","e","w","o","r","k">> >>), Some(<<1>>)),
     MkStep(3, <<"I","m","p","l","e","m","e","n","t","a","t","i","o","n">>,
            Some(<<"E","x","e","c","u","t","e"," ","t","h","e"," ","p","l","a","n","n","e","d"," ","a","p","p","r","o","a","c","h">>),
            Some(<<"4","-","6"," ","h","o","u","r","s">>),
            Some(<< <<"I","m","p","l","e","m","e","n","t","a","t","i","o","n"," ","T","o","o","l","s">> >>), Some(<<2>>)) >>

\* ----------------------------------------------------------------- inputs

MaxSteps == 3

MaxEdges == 3

MaxSampleSteps == 2

MaxUniformSteps == 96

\* the subsets of S with at most k elements
RECURSIVE SubsetsUpTo(_, _)
SubsetsUpTo(S, k) ==
  IF k = 0 \/ S = {} THEN {{}}
  ELSE LET x == CHOOSE x \in S : TRUE
       IN SubsetsUpTo(S \ {x}, k) \cup {T \cup {x} : T \in SubsetsUpTo(S \ {x}, k - 1)}

\* a well-formed step: feasible, no risk keyword, mitigation named
GoodStep(id, dependencies) ==
  MkStep(id, Txt_goodTitle, Some(Txt_goodDesc), Some(Dur_1_2_hours),
         Some(<<Res_Laptop>>), Some(dependencies))

\* a step that draws warnings: short description, risk keywords in the
\* title, a critical resource
RiskyStep(id, dependencies) ==
  MkStep(id, Txt_riskTitle, Some(Txt_shortDesc), Some(Dur_10_12_hours),
         Some(<<Res_ExpertBackup>>), Some(dependencies))

\* plans that make validatePlan fail: null, a non-array, an undefined element
MalformedPlans == {NullPlan, ObjectPlan, ArrayPlan(<<UndefinedStep>>)}

\* steps 1..n in order, each depending on the ids E gives it; ids up to n + 1
\* so that a dependency may name a step the plan does not have
GraphPlan(n, E) ==
  ArrayPlan([i \in 1..n |-> GoodStep(i, SelectSeq([t \in 1..(n + 1) |-> t],
                                                  LAMBDA t : <<i, t>> \in E))])

GraphPlans ==
  UNION {{GraphPlan(n, E) : E \in SubsetsUpTo((1..n) \X (1..(n + 1)), MaxEdges)}
         : n \in 0..MaxSteps}

\* the field variations of one step
SampleSteps(id) ==
  {GoodStep(id, <<>>),
   RiskyStep(id, <<>>),
   MkStep(id, Txt_goodTitle, Some(Txt_plainDesc), Undefined, Some(<<Res_Docs>>), Some(<<>>)),
   MkStep(id, Txt_goodTitle, Some(Txt_plainDesc), Some(Dur_soon),
          Some(<<Res_Laptop, Res_Docs>>), Undefined),
   MkStep(id, Txt_goodTitle, Undefined, Some(Dur_2_days), Some(<<>>), Some(<<>>)),
   MkStep(id, Txt_goodTitle, Some(Txt_goodDesc), Some(Dur_40_60_hours),
          Undefined, Some(<<>>))}

RECURSIVE SamplePlansOfLen(_)
SamplePlansOfLen(n) ==
  IF n = 0 THEN {<<>>}
  ELSE {Append(steps, s) : steps \in SamplePlansOfLen(n - 1), s \in SampleSteps(n)}

SamplePlans == UNION {{ArrayPlan(steps) : steps \in SamplePlansOfLen(n)} : n \in 0..MaxSampleSteps}

MaxOrderSteps == 1

\* the plans on which the rules are run in every order
OrderPlans == UNION {{ArrayPlan(steps) : steps \in SamplePlansOfLen(n)} : n \in 0..MaxOrderSteps}

\* n copies of one step, ids 1..n
UniformPlans ==
  {ArrayPlan([i \in 1..n |-> GoodStep(i, <<>>)]) : n \in 0..MaxUniformSteps}
  \cup {ArrayPlan([i \in 1..n |-> RiskyStep(i, <<>>)]) : n \in 0..MaxUniformSteps}

MaxPad == 10

MaxPool == 11

\* one step with every combination of the field values the evaluators tell
\* apart: a risk keyword in the title or none, a description of 20 or 21
\* characters or none, a duration in hours, in days or none, a resource list
\* that is empty, plain, critical or missing, and a dependency list that is
\* empty, a self-dependency, long or missing
CrossSteps(id) ==
  {MkStep(id, title, description, duration, resources, dependencies) :
     title \in {Txt_goodTitle, Txt_riskTitle},
     description \in {Some(BoundaryDescriptions[1]), Some(BoundaryDescriptions[2]), Undefined},
     duration \in {Some(Dur_1_2_hours), Some(Dur_2_days), Undefined},
     resources \in {Some(<<>>), Some(<<Res_Laptop>>), Some(<<Res_ExpertBackup>>), Undefined},
     dependencies \in {Some(<<>>), Some(<<id>>), Some(<<id + 1, id + 2, id + 3>>), Undefined}}

\* k steps of "1-2 hours" followed by the step last
PaddedPlan(k, last) ==
  ArrayPlan([i \in 1..(k + 1) |-> IF i <= k THEN GoodStep(i, <<>>) ELSE last])

\* the names R1, R2, ... of the resources lo..hi
ResourceNames(lo, hi) == [i \in 1..(hi - lo + 1) |-> <<"R">> \o NumberToString(lo + i - 1)]

\* two steps: the first needs the resources 1..a, the second the resources
\* b..MaxPool, with its first resource listed twice when twice holds
ResourcePlan(a, b, twice) ==
  LET second == ResourceNames(b, MaxPool) IN
  ArrayPlan(<<MkStep(1, Txt_goodTitle, Some(Txt_goodDesc), Some(Dur_1_2_hours),
                     Some(ResourceNames(1, a)), Some(<<>>)),
              MkStep(2, Txt_goodTitle, Some(Txt_goodDesc), Some(Dur_1_2_hours),
                     Some(IF twice /\ Len(second) > 0 THEN second \o <<second[1]>> ELSE second),
                     Some(<<>>))>>)

\* two and three steps that differ in their durations only
DurationPlans ==
  LET texts == {BalanceDurations[d] : d \in 1..Len(BalanceDurations)}
                   \cup {Dur_1_2_hours, Dur_soon}
      step(i, duration) == MkStep(i, Txt_goodTitle, Some(Txt_goodDesc), Some(duration),
                                  Some(<<Res_Laptop>>), Some(<<>>))
  IN {ArrayPlan(<<step(1, a), step(2, b)>>) : a \in texts, b \in texts}
     \cup {ArrayPlan(<<step(1, a), step(2, b), step(3, c)>>) :
              a \in texts, b \in texts, c \in texts}

FieldPlans ==
  UNION {{PaddedPlan(k, step) : step \in CrossSteps(k + 1)} : k \in {0, MaxPad}}
  \cup DurationPlans
  \cup {PaddedPlan(k, MkStep(k + 1, Txt_goodTitle, Some(Txt_goodDesc), Some(duration),
                             Some(<<Res_Laptop>>), Some(<<>>))) :
          k \in 0..MaxPad,
          duration \in {BoundaryDurations[d] : d \in 1..Len(BoundaryDurations)}
                       \cup {Dur_1_2_hours, Dur_3_4_hours, Dur_soon}}
  \cup {ResourcePlan(a, b, twice) :
          a \in 0..MaxPool, b \in 1..(MaxPool + 1), twice \in BOOLEAN}

\* the steps of p in the opposite order
ReversedPlan(p) == ArrayPlan([i \in 1..Len(p.steps) |-> p.steps[Len(p.steps) + 1 - i]])

\* the plans of GraphPlans with their steps listed from the highest id down
ReversedPlans == {ReversedPlan(p) : p \in GraphPlans}

\* task descriptions, one for every branch of analyzeTaskType and one of more
\* than 50 characters
Tasks ==
  { <<"L","a","u","n","c","h"," ","a"," ","m","a","r","k","e","t","i","n","g"," ","c","a","m","p","a","i","g","n">>,
    <<"D","e","v","e","l","o","p"," ","a"," ","m","o","b","i","l","e"," ","a","p","p">>,
    <<"P","l","a","n"," ","t","h","e"," ","s","t","r","a","t","e","g","y">>,
    <<"R","e","s","e","a","r","c","h"," ","t","h","e"," ","m","a","r","k","e","t">>,
    <<"D","e","s","i","g","n"," ","a"," ","l","o","g","o">>,
    <<"F","i","x"," ","t","h","e"," ","b","u","g">>,
    <<"C","r","e","a","t","e"," ","a"," ","c","o","m","p","r","e","h","e","n","s","i","v","e"," ","m","a","r","k","e","t","i","n","g"," ","s","t","r","a","t","e","g","y"," ","f","o","r"," ","l","a","u","n","c","h","i","n","g"," ","a"," ","n","e","w"," ","e","c","o","-","f","r","i","e","n","d","l","y"," ","s","m","a","r","t","p","h","o","n","e">> }

\* the plans planTask returns: plan of the try block for every task and
\* complexity (a complexity without a template included), and the fallback
\* plan of the catch block
PlannerPlans ==
  {ArrayPlan(planTask(task, complexity)) :
     task \in Tasks, complexity \in {"simple", "medium", "complex", "unlisted"}}
  \cup {ArrayPlan(getFallbackPlan(task)) : task \in Tasks}

\* ---------------------------------------------------------- state machine
\* One ValidatorAgent; validatePlan(task, plan) is called, and then called
\* once more with the same plan (again).  pc is the position inside
\* validatePlan; validations is the local array of the try block; result the
\* value the promise resolves to; prev the result of the first call.  ran
\* lists the rule functions called so far, each with what it returned or
\* threw, when the rules are taken in an order other than that of
\* this.validationRules.

NoResult ==
  [kind |-> "none", error |-> "", validations |-> <<>>, score |-> Undefined,
   summary |-> Undefined, recommendations |-> Undefined]

\* variant: the array of the call before is kept
KeptValidations == validations

\* const validations = []
InitialValidations == <<>>

\* the return of the try block
tryReturn(vs) ==
  LET score == calculateValidationScore(vs) IN
  [kind |-> "success", error |-> "", validations |-> vs, score |-> Some(score),
   summary |-> Some(generateValidationSummary(vs, score)),
   recommendations |-> Some(generateRecommendations(vs))]

\* variant: the catch block keeps the findings produced before the fault
catchReturnMixed(message, vs) ==
  [kind |-> "failure", error |-> message, validations |-> vs \o getFallbackValidations,
   score |-> Undefined, summary |-> Undefined, recommendations |-> Undefined]

\* the return of the catch block
catchReturn(message, vs) ==
  [kind |-> "failure", error |-> message, validations |-> getFallbackValidations,
   score |-> Undefined, summary |-> Undefined, recommendations |-> Undefined]

\* main, the serverless handler before an invocation: pc is the position
\* inside main, params the parameters of the invocation (task, plan and
\* validation as truthy or not), sessionId the local of main (0 before
\* createSession returned), sessions the sessions open at the service,
\* deleted the session ids passed to deleteSession, messages the number of
\* sendMessage calls answered, statusCode and error the response
NotInvoked ==
  [pc |-> "none", params |-> [agent |-> "", task |-> FALSE, plan |-> FALSE,
                             validation |-> FALSE],
   sessionId |-> 0, sessions |-> {}, deleted |-> <<>>, messages |-> 0,
   statusCode |-> 0, error |-> ""]

\* app, the TaskOrchestrator of the page after its constructor: pc is the
\* position inside processTask, taskInput the kind of text in the task
\* field, disabled the disabled flag of processBtn, taskInput and
\* complexitySelect, timerInterval the field this.timerInterval (0 for
\* null), intervals the interval timers running in the page, classes the
\* class list of each status item, width the width of progressFill in
\* percent, stage the agent of the stage processTask is in, trace what the
\* last call of processTask has done so far
PageLoaded ==
  [pc |-> "idle", taskInput |-> "empty", disabled |-> FALSE, timerInterval |-> 0,
   intervals |-> {}, classes |-> [a \in {"planner", "validator", "advisor"} |-> {}],
   width |-> 0, stage |-> "", trace |-> <<>>]

InitWith(plans) ==
  /\ plan \in plans
  /\ pc = "idle"
  /\ validations = <<>>
  /\ result = NoResult
  /\ again = FALSE
  /\ prev = NoResult
  /\ ran = <<>>
  /\ main = NotInvoked
  /\ app = PageLoaded

\* validatePlan is entered: the console.log before the try reads plan.length
Call ==
  /\ pc = "idle"
  /\ result' = NoResult
  /\ IF plan.kind = "null"
       THEN pc' = "rejected" /\ validations' = validations
       ELSE pc' = "feasibility" /\ validations' = InitialValidations
  /\ UNCHANGED <<plan, again, prev, ran, main, app>>

\* variant: buildDependencyGraph stores the default in the step
\* (step.dependencies = step.dependencies || [])
planWithDefaults(p) ==
  [p EXCEPT !.steps = [i \in 1..Len(p.steps) |->
     IF p.steps[i].obj /\ ~p.steps[i].dependencies.def
       THEN [p.steps[i] EXCEPT !.dependencies = Some(<<>>)]
       ELSE p.steps[i]]]

\* variant: calculatePlanDuration stores its default in the step
\* (step.duration = "2 hours" when the duration has no "a-b")
planWithDefaultDurations(p) ==
  [p EXCEPT !.steps = [i \in 1..Len(p.steps) |->
     IF p.steps[i].obj /\ p.steps[i].duration.def
        /\ ~matchRange(p.steps[i].duration.val).matched
       THEN [p.steps[i] EXCEPT !.duration = Some(<<"2">> \o S_hoursUnit)]
       ELSE p.steps[i]]]

\* the plan argument after a rule function ran: the rules read the plan and
\* its steps (forEach, reduce, match, includes, length); graph[step.id] holds
\* the step's own dependencies array, which the traversals only read
planAfterRule(p) == p

\* one iteration of the loop over this.validationRules
RunRule(rule, outcome, next) ==
  /\ pc = rule
  /\ IF outcome.threw
       THEN /\ pc' = "caught"
            /\ result' = [NoResult EXCEPT !.error = outcome.error]
            /\ validations' = validations
       ELSE /\ pc' = next
            /\ validations' = validations \o outcome.out
            /\ result' = result
  /\ plan' = planAfterRule(plan)
  /\ UNCHANGED <<again, prev, ran, main, app>>

RunFeasibility == RunRule("feasibility", validateFeasibility(plan), "resources")

RunResources == RunRule("resources", validateResources(plan), "timeline")

RunTimeline == RunRule("timeline", validateTimeline(plan), "dependencies")

RunDependencies == RunRule("dependencies", validateDependencies(plan), "risks")

RunRisks == RunRule("risks", validateRisks(plan), "score")

\* score, summary, recommendations and the return of the try block
Return ==
  /\ pc = "score"
  /\ result' = tryReturn(validations)
  /\ pc' = "returned"
  /\ UNCHANGED <<plan, validations, again, prev, ran, main, app>>

\* the catch block
Catch ==
  /\ pc = "caught"
  /\ result' = catchReturn(result.error, validations)
  /\ pc' = "returned"
  /\ UNCHANGED <<plan, validations, again, prev, ran, main, app>>

\* the caller keeps the result and calls validatePlan again
CallAgain ==
  /\ pc = "returned"
  /\ ~again
  /\ again' = TRUE
  /\ prev' = result
  /\ pc' = "idle"
  /\ UNCHANGED <<plan, validations, result, ran, main, app>>

Next ==
  \/ Call
  \/ RunFeasibility
  \/ RunResources
  \/ RunTimeline
  \/ RunDependencies
  \/ RunRisks
  \/ Return
  \/ Catch
  \/ CallAgain

Init == InitWith(SamplePlans \cup MalformedPlans)

Spec == Init /\ [][Next]_vars

InitGraph == InitWith(GraphPlans \cup MalformedPlans)

SpecGraph == InitGraph /\ [][Next]_vars

InitLong == InitWith(UniformPlans \cup MalformedPlans)

SpecLong == InitLong /\ [][Next]_vars

InitFields == InitWith(FieldPlans \cup MalformedPlans)

SpecFields == InitFields /\ [][Next]_vars

InitOrder == InitWith(ReversedPlans \cup MalformedPlans)

SpecOrder == InitOrder /\ [][Next]_vars

\* the validator given the plans of the planner
InitPlanner == InitWith(PlannerPlans \cup MalformedPlans)
SpecPlanner == InitPlanner /\ [][Next]_vars

\* -------------------------------------------------- rules in another order
\* The loop of validatePlan over this.validationRules with its iterations
\* permuted: any rule function not yet called is called next, with the same
\* agent and the same plan object.

RuleNames == <<"feasibility", "resources", "timeline", "dependencies", "risks">>

\* ruleFunction.call(this, task, plan)
RuleOutcome(rule, p) ==
  CASE rule = "feasibility" -> validateFeasibility(p)
    [] rule = "resources" -> validateResources(p)
    [] rule = "timeline" -> validateTimeline(p)
    [] rule = "dependencies" -> validateDependencies(p)
    [] rule = "risks" -> validateRisks(p)

CallAnyOrder ==
  /\ pc = "idle"
  /\ result' = NoResult
  /\ ran' = <<>>
  /\ IF plan.kind = "null"
       THEN pc' = "rejected" /\ validations' = validations
       ELSE pc' = "rules" /\ validations' = InitialValidations
  /\ UNCHANGED <<plan, again, prev, main, app>>

RunAnyRule(rule, outcome) ==
  /\ pc = "rules"
  /\ \A i \in 1..Len(ran) : ran[i].rule # rule
  /\ ran' = Append(ran, [rule |-> rule, outcome |-> outcome])
  /\ IF outcome.threw
       THEN /\ pc' = "caught"
            /\ result' = [NoResult EXCEPT !.error = outcome.error]
            /\ validations' = validations
       ELSE /\ pc' = (IF Len(ran) + 1 = Len(RuleNames) THEN "score" ELSE "rules")
            /\ validations' = validations \o outcome.out
            /\ result' = result
  /\ plan' = planAfterRule(plan)
  /\ UNCHANGED <<again, prev, main, app>>

NextAnyOrder ==
  \/ CallAnyOrder
  \/ \E k \in 1..Len(RuleNames) : RunAnyRule(RuleNames[k], RuleOutcome(RuleNames[k], plan))
  \/ Return
  \/ Catch

InitAnyOrder == InitWith(OrderPlans \cup MalformedPlans)

SpecAnyOrder == InitAnyOrder /\ [][NextAnyOrder]_vars

\* ------------------------------------------------------ serverless handler
\* main of src/serverless/api.js, one invocation.  The watsonx service is the
\* environment: createSession, a message and deleteSession each succeed or
\* fail.  An action is the code of main between two awaits.

\* the cases of the switch
Agents == {"planner", "validator", "advisor", "orchestrate"}

\* the parameters of an invocation: a missing agent is "", "summarizer" is an
\* agent the switch has no case for
ParamsSet ==
  [agent : Agents \cup {"", "summarizer"}, task : BOOLEAN, plan : BOOLEAN,
   validation : BOOLEAN]

\* the message of the Error validateParams throws, "" when it returns
validateParams(params) ==
  IF params.agent = "" THEN "Missing required parameter: agent"
  ELSE IF ~params.task /\ params.agent # "validator"
    THEN "Missing required parameter: task"
  ELSE IF params.agent = "validator" /\ ~params.plan
    THEN "Missing required parameter: plan for validator"
  ELSE IF params.agent = "advisor" /\ (~params.plan \/ ~params.validation)
    THEN "Missing required parameters for advisor"
  ELSE ""

\* the number of sendMessage calls of the agent's case: callPlanner,
\* callValidator and callAdvisor send one message, orchestrateTask calls the
\* three in turn
MessagesOf(agent) == IF agent = "orchestrate" THEN 3 ELSE 1

\* the catch block of main: the response with statusCode 500
catchBlock(m, message) ==
  [m EXCEPT !.pc = "returned", !.statusCode = 500, !.error = message]

\* validateParams(params) and the call of createSession
MainStart ==
  /\ main.pc = "start"
  /\ main' = IF validateParams(main.params) # ""
               THEN catchBlock(main, validateParams(main.params))
               ELSE [main EXCEPT !.pc = "createSession"]
  /\ UNCHANGED <<plan, pc, validations, result, again, prev, ran, app>>

\* createSession returns the id of a new session or throws; then the switch
\* up to the first sendMessage, or its default case
CreateSession(ok) ==
  /\ main.pc = "createSession"
  /\ main' = IF ~ok THEN catchBlock(main, "Failed to create watsonx session")
             ELSE LET created == [main EXCEPT !.sessionId = 1,
                                                 !.sessions = main.sessions \cup {1}]
                  IN IF main.params.agent \in Agents
                       THEN [created EXCEPT !.pc = "sendMessage"]
                       ELSE catchBlock(created, "Unknown agent: " \o main.params.agent)
  /\ UNCHANGED <<plan, pc, validations, result, again, prev, ran, app>>

\* sendMessage returns the text of the answer or throws; the parse functions
\* catch their own errors; after the third answer orchestrateTask builds the
\* summary, where calculateDuration throws on a step without a duration
\* string (summaryThrows)
SendMessage(ok, summaryThrows) ==
  /\ main.pc = "sendMessage"
  /\ main' = IF ~ok THEN catchBlock(main, "Failed to communicate with AI model")
             ELSE LET answered == [main EXCEPT !.messages = main.messages + 1]
                  IN IF answered.messages < MessagesOf(main.params.agent)
                       THEN answered
                     ELSE IF main.params.agent = "orchestrate" /\ summaryThrows
                       THEN catchBlock(answered,
                                       "Cannot read properties of undefined (reading 'match')")
                     ELSE [answered EXCEPT !.pc = "deleteSession"]
  /\ UNCHANGED <<plan, pc, validations, result, again, prev, ran, app>>

\* deleteSession(sessionId) swallows the error of the service; then the
\* response with statusCode 200
DeleteSession(ok) ==
  /\ main.pc = "deleteSession"
  /\ main' = [main EXCEPT !.deleted = Append(main.deleted, main.sessionId),
                          !.sessions = IF ok THEN main.sessions \ {main.sessionId}
                                       ELSE main.sessions,
                          !.pc = "returned", !.statusCode = 200]
  /\ UNCHANGED <<plan, pc, validations, result, again, prev, ran, app>>

NextMain ==
  \/ MainStart
  \/ \E ok \in BOOLEAN : CreateSession(ok)
  \/ \E ok \in BOOLEAN, summaryThrows \in BOOLEAN : SendMessage(ok, summaryThrows)
  \/ \E ok \in BOOLEAN : DeleteSession(ok)

InitMain ==
  /\ plan = NullPlan
  /\ pc = "idle"
  /\ validations = <<>>
  /\ result = NoResult
  /\ again = FALSE
  /\ prev = NoResult
  /\ ran = <<>>
  /\ app = PageLoaded
  /\ main \in {[NotInvoked EXCEPT !.pc = "start", !.params = params] : params \in ParamsSet}

SpecMain == InitMain /\ [][NextMain]_vars

\* ----------------------------------------------------- browser application
\* TaskOrchestrator of src/app.js: processTask and the clicks that can come
\* while it waits.  An action is a click handler, or the code of processTask
\* between two awaits (a timeout firing and the continuation it resumes).

\* an entry of trace
Ev(op, agent, status, percentage) ==
  [op |-> op, agent |-> agent, status |-> status, percentage |-> percentage]

\* the percentage processTask passes to updateProgress after the agent's stage
PercentageOf(agent) ==
  CASE agent = "planner" -> 33 [] agent = "validator" -> 66 [] OTHER -> 100

\* the agent of the stage after the agent's
NextAgent(agent) == IF agent = "planner" THEN "validator" ELSE "advisor"

setProcessingState(u, isProcessing) == [u EXCEPT !.disabled = isProcessing]

\* setInterval returns an id no running timer has
startTimer(u) ==
  LET id == CHOOSE i \in 1..(Cardinality(u.intervals) + 1) : i \notin u.intervals
  IN [u EXCEPT !.timerInterval = id, !.intervals = u.intervals \cup {id}]

\* variant: the interval is left running
stopTimerKeepsInterval(u) == u

\* if (this.timerInterval) clearInterval(this.timerInterval)
stopTimer(u) ==
  IF u.timerInterval # 0
    THEN [u EXCEPT !.intervals = u.intervals \ {u.timerInterval}]
    ELSE u

\* statusItems.forEach(item => item.classList.remove(...)) and the progress bar
ClearIndicators(u) ==
  [u EXCEPT !.classes = [a \in DOMAIN u.classes |-> {}], !.width = 0]

startOrchestration(u) == ClearIndicators(u)

resetUI(u) == stopTimer([ClearIndicators(u) EXCEPT !.taskInput = "empty"])

\* updateStatus up to its setTimeout
updateStatus(u, agent, status) ==
  [u EXCEPT !.classes[agent] =
              (u.classes[agent] \ {"active", "completed", "processing"}) \cup {status},
            !.trace = Append(u.trace, Ev("updateStatus", agent, status, 0))]

\* updateProgress up to its setTimeout
updateProgress(u, percentage) ==
  [u EXCEPT !.width = percentage,
            !.trace = Append(u.trace, Ev("updateProgress", "", "", percentage))]

\* callAgent up to its setTimeout
callAgent(u, agent) ==
  [u EXCEPT !.trace = Append(u.trace, Ev("callAgent", agent, "", 0))]

\* the finally block of processTask; processTask has ended
processTaskFinally(u) ==
  [stopTimer(setProcessingState(u, FALSE)) EXCEPT
     !.pc = "idle", !.trace = Append(u.trace, Ev("finally", "", "", 0))]

\* the catch block of processTask, followed by the finally block
processTaskCatch(u) ==
  processTaskFinally([stopTimer(setProcessingState(u, FALSE)) EXCEPT
                        !.trace = Append(u.trace, Ev("catch", "", "", 0))])

\* the user edits the task field: nothing or blanks only, fewer than 10
\* characters, or 10 and more
TypeTask(text) ==
  /\ ~app.disabled
  /\ app' = [app EXCEPT !.taskInput = text]
  /\ UNCHANGED <<plan, pc, validations, result, again, prev, ran, main>>

\* click on demoBtn: loadDemoTask
ClickDemo ==
  /\ app' = [app EXCEPT !.taskInput = "long"]
  /\ UNCHANGED <<plan, pc, validations, result, again, prev, ran, main>>

\* click on resetBtn: resetUI; the button is never disabled
ClickReset ==
  /\ app' = resetUI(app)
  /\ UNCHANGED <<plan, pc, validations, result, again, prev, ran, main>>

\* click on processBtn (a disabled button gets no click, and the button is
\* disabled while processTask waits): processTask up to its first await
ClickProcess ==
  /\ ~app.disabled
  /\ app.pc = "idle"
  /\ app' = IF app.taskInput \in {"empty", "short"}
              THEN [app EXCEPT !.trace = <<Ev("return", "", "", 0)>>]
              ELSE [updateStatus(
                      startTimer(setProcessingState(
                        startOrchestration(resetUI([app EXCEPT !.trace = <<>>])), TRUE)),
                      "planner", "processing")
                    EXCEPT !.pc = "statusProcessing", !.stage = "planner"]
  /\ UNCHANGED <<plan, pc, validations, result, again, prev, ran, main>>

\* the timeout of updateStatus(agent, 'processing') fires; then callAgent
ProcessingShown ==
  /\ app.pc = "statusProcessing"
  /\ app' = [callAgent([app EXCEPT !.classes[app.stage] = @ \cup {"active"}], app.stage)
             EXCEPT !.pc = "callAgent"]
  /\ UNCHANGED <<plan, pc, validations, result, again, prev, ran, main>>

\* the timeout of callAgent fires; then displayPlan, displayValidation or
\* displayAdvice, which throws or not, and updateStatus(agent, 'completed')
AgentAnswered(displayThrows) ==
  /\ app.pc = "callAgent"
  /\ app' = IF displayThrows THEN processTaskCatch(app)
            ELSE [updateStatus(app, app.stage, "completed") EXCEPT !.pc = "statusCompleted"]
  /\ UNCHANGED <<plan, pc, validations, result, again, prev, ran, main>>

\* the timeout of updateStatus(agent, 'completed') fires; then updateProgress
CompletedShown ==
  /\ app.pc = "statusCompleted"
  /\ app' = [updateProgress(app, PercentageOf(app.stage)) EXCEPT !.pc = "updateProgress"]
  /\ UNCHANGED <<plan, pc, validations, result, again, prev, ran, main>>

\* the timeout of updateProgress fires; then the next stage, or after the
\* advisor's stage displaySummary, which throws or not, and the end
ProgressShown(displayThrows) ==
  /\ app.pc = "updateProgress"
  /\ app' = IF app.stage # "advisor"
              THEN [updateStatus(app, NextAgent(app.stage), "processing")
                    EXCEPT !.pc = "statusProcessing", !.stage = NextAgent(app.stage)]
            ELSE IF displayThrows THEN processTaskCatch(app)
            ELSE processTaskFinally(app)
  /\ UNCHANGED <<plan, pc, validations, result, again, prev, ran, main>>

NextApp ==
  \/ \E text \in {"empty", "short", "long"} : TypeTask(text)
  \/ ClickDemo
  \/ ClickReset
  \/ ClickProcess
  \/ ProcessingShown
  \/ \E displayThrows \in BOOLEAN : AgentAnswered(displayThrows)
  \/ CompletedShown
  \/ \E displayThrows \in BOOLEAN : ProgressShown(displayThrows)

InitApp ==
  /\ plan = NullPlan
  /\ pc = "idle"
  /\ validations = <<>>
  /\ result = NoResult
  /\ again = FALSE
  /\ prev = NoResult
  /\ ran = <<>>
  /\ main = NotInvoked
  /\ app = PageLoaded

SpecApp == InitApp /\ [][NextApp]_vars

\* ------------------------------------------------------------- properties

Range(seq) == {seq[i] : i \in 1..Len(seq)}

HasFinding(vs, name) == \E i \in 1..Len(vs) : vs[i].id.name = name

FindingNamed(vs, name) == vs[CHOOSE i \in 1..Len(vs) : vs[i].id.name = name]

AllOfType(vs, type) == \A i \in 1..Len(vs) : vs[i].type = type

\* an array of step objects
WellFormed(p) == p.kind = "array" /\ ~HasUndefinedStep(p)

UniqueIds(p) ==
  \A i, j \in 1..Len(p.steps) : p.steps[i].id = p.steps[j].id => i = j

Succeeded == pc = "returned" /\ result.kind = "success"

ScoreIs(r, n) == r.score.def /\ ~r.score.val.nan /\ r.score.val.v = n

\* the dependency graph as a relation: the ids one step away from the set S
Successors(graph, S) == UNION {Range(Neighbors(graph, u)) : u \in S}

RECURSIVE Closure(_, _)
Closure(graph, S) ==
  LET T == S \cup Successors(graph, S) IN IF T = S THEN S ELSE Closure(graph, T)

\* the ids reachable from u along one or more dependency edges
ReachableFrom(graph, u) == Closure(graph, Successors(graph, {u}))

CycleNodes(graph) == {u \in Range(graph.keys) : u \in ReachableFrom(graph, u)}

HasCycle(graph) == CycleNodes(graph) # {}

\* the graph has one simple cycle: the nodes on cycles form one strongly
\* connected component in which every node has one successor
ExactlyOneCycle(graph) ==
  LET C == CycleNodes(graph) IN
  /\ C # {}
  /\ \A u, v \in C : v \in ReachableFrom(graph, u)
  /\ \A u \in C : Cardinality(Range(Neighbors(graph, u)) \cap C) = 1

\* C1: for a plan with unique step ids, detectCircularDependencies reports
\* at least one chain iff the dependency graph has a directed cycle (a
\* self-dependency included), and validateDependencies emits the
\* 'circular-dependencies' finding in exactly that case.
C1_ChainsIffCycle ==
  (WellFormed(plan) /\ UniqueIds(plan)) =>
    LET graph == buildDependencyGraph(plan.steps) IN
    /\ Len(detectCircularDependencies(graph)) > 0 <=> HasCycle(graph)
    /\ pc \in {"risks", "score"} =>
         (HasFinding(validations, "circular-dependencies") <=> HasCycle(graph))
    /\ Succeeded =>
         (HasFinding(result.validations, "circular-dependencies") <=> HasCycle(graph))

\* a cyclic three-step plan whose dependency rule has run and reported it
C1_Witness ==
  /\ pc = "score"
  /\ Len(plan.steps) = 3
  /\ UniqueIds(plan)
  /\ HasCycle(buildDependencyGraph(plan.steps))
  /\ HasFinding(validations, "circular-dependencies")

\* C2: when the dependency graph has exactly one directed cycle, exactly one
\* chain is reported and it contains every id on the cycle, however many
\* steps outside the cycle depend on its members.
C2_OneCycleOneChain ==
  (Succeeded /\ UniqueIds(plan)
     /\ ExactlyOneCycle(buildDependencyGraph(plan.steps))) =>
    /\ HasFinding(result.validations, "circular-dependencies")
    /\ LET chains == FindingNamed(result.validations, "circular-dependencies").details.chains
       IN /\ Len(chains) = 1
          /\ CycleNodes(buildDependencyGraph(plan.steps)) \subseteq Range(chains[1])

\* C3: validatePlan never throws and never returns a rejected promise: every
\* call ends with a result object that has a boolean success field.
C3_NeverRejects ==
  /\ pc # "rejected"
  /\ pc = "returned" => result.kind \in {"success", "failure"}

\* the findings of the five rules, in the order of this.validationRules
RuleOutcomes(p) ==
  <<validateFeasibility(p), validateResources(p), validateTimeline(p),
    validateDependencies(p), validateRisks(p)>>

IsFallbackPair(vs) ==
  /\ Len(vs) = 2
  /\ vs[1].id.name = "fallback-1" /\ vs[1].type = "passed"
  /\ vs[2].id.name = "fallback-2" /\ vs[2].type = "warning"

\* C4: when an evaluator throws, the result is success:false with an error
\* string and exactly the two fallback findings, none of the findings
\* produced before the fault; otherwise it is success:true with the findings
\* of all five evaluators.  No result mixes the two.
C4_FullSetOrFallback ==
  pc = "returned" =>
    LET outcomes == RuleOutcomes(plan) IN
    IF \E k \in 1..5 : outcomes[k].threw
      THEN /\ result.kind = "failure"
           /\ result.error # ""
           /\ IsFallbackPair(result.validations)
      ELSE /\ result.kind = "success"
           /\ result.validations = outcomes[1].out \o outcomes[2].out \o outcomes[3].out
                                    \o outcomes[4].out \o outcomes[5].out
           /\ \A i \in 1..Len(result.validations) :
                result.validations[i].id.name \notin {"fallback-1", "fallback-2"}

\* a fault after two evaluators had already produced findings
C4_Witness ==
  /\ pc = "returned"
  /\ result.kind = "failure"
  /\ Len(validations) > 0
  /\ IsFallbackPair(result.validations)

HasMalformedDuration(p) ==
  \E i \in 1..Len(p.steps) :
    ~p.steps[i].duration.def \/ ~matchRange(p.steps[i].duration.val).matched

\* twice the hours the claim gives a step: its midpoint, or the default 2
ClaimedHalfHours(step) ==
  IF step.duration.def /\ matchRange(step.duration.val).matched
    THEN matchRange(step.duration.val).g1 + matchRange(step.duration.val).g2
    ELSE 4

ClaimedTotalHalfHours(steps) ==
  forEach(LAMBDA total, i : total + ClaimedHalfHours(steps[i]), 1, Len(steps), 0)

\* C5: a step whose duration is missing or unparsable is tolerated: the
\* result is success:true with the full finding set, and the step counts as
\* 2 hours in the timeline total.
C5_MalformedDurationTolerated ==
  (pc = "returned" /\ WellFormed(plan) /\ HasMalformedDuration(plan)) =>
    /\ result.kind = "success"
    /\ HasFinding(result.validations, "timeline-assessment")
    /\ LET total2 == ClaimedTotalHalfHours(plan.steps)
           text == FindingNamed(result.validations, "timeline-assessment").details.totalDuration
       IN text = (IF total2 <= 16 THEN NumberToString(CeilDiv(total2, 2)) \o S_hoursUnit
                  ELSE IF total2 <= 80 THEN NumberToString(CeilDiv(total2, 16)) \o S_daysUnit
                  ELSE NumberToString(CeilDiv(total2, 80)) \o S_weeksUnit)

\* C6 as stated: the score is 100 iff every finding has type passed.
C6_Score100IffAllPassed ==
  Succeeded => (ScoreIs(result, 100) <=> AllOfType(result.validations, "passed"))

\* C6: when every finding has type passed the score is 100; a score of 100
\* means every finding passed whenever the result holds fewer than 100
\* findings (with 100 or more, one warning among passes still rounds to 100).
C6_Score100Amended ==
  Succeeded =>
    /\ AllOfType(result.validations, "passed") => ScoreIs(result, 100)
    /\ (ScoreIs(result, 100) /\ Len(result.validations) < 100)
         => AllOfType(result.validations, "passed")

\* a plan with steps whose findings all passed, scored 100
C6_Witness ==
  /\ Succeeded
  /\ Len(plan.steps) >= 2
  /\ AllOfType(result.validations, "passed")
  /\ ScoreIs(result, 100)

\* C7: the score of a validatePlan result is 0 iff every finding of the
\* result has type failed.
C7_ScoreZeroIffAllFailed ==
  pc = "returned" =>
    (ScoreIs(result, 0) <=> AllOfType(result.validations, "failed"))

\* a result with a failed finding among others, and a score above 0
C7_Witness ==
  /\ Succeeded
  /\ \E i \in 1..Len(result.validations) : result.validations[i].type = "failed"
  /\ ~AllOfType(result.validations, "failed")
  /\ ~ScoreIs(result, 0)

\* round(100 * (passed + warnings / 2) / total), halves rounded up
RoundedAverage(passed, warnings, total) ==
  (100 * (2 * passed + warnings) + total) \div (2 * total)

\* C8: the score of a successful result is an integer in [0, 100] equal to
\* round(100 x (passed + 0.5 x warnings) / total), failed findings weighing 0.
C8_ScoreIsRoundedAverage ==
  Succeeded =>
    /\ result.score.def /\ ~result.score.val.nan
    /\ result.score.val.v \in 0..100
    /\ result.score.val.v =
         RoundedAverage(CountType(result.validations, "passed"),
                        CountType(result.validations, "warning"),
                        Len(result.validations))

C10_EmptyPlan ==
  (pc = "returned" /\ plan.kind = "array" /\ Len(plan.steps) = 0) =>
    /\ result.kind = "success"
    /\ ~HasFinding(result.validations, "circular-dependencies")
    /\ HasFinding(result.validations, "dependency-overview")
    /\ FindingNamed(result.validations, "dependency-overview").details.maxDepth = 0
    /\ HasFinding(result.validations, "resource-count")
    /\ FindingNamed(result.validations, "resource-count").details.totalResources = 0

\* validatePlan has returned for the plan without steps
C10_Witness ==
  /\ Succeeded
  /\ plan.kind = "array"
  /\ Len(plan.steps) = 0
  /\ HasFinding(result.validations, "dependency-overview")

\* the ids of the plan's steps
PlanIds(p) == {p.steps[i].id : i \in 1..Len(p.steps)}

\* some step depends on an id that no step of the plan has
HasDanglingDependency(p) ==
  \E i \in 1..Len(p.steps) :
    \E d \in Range(StepDependencies(p.steps[i])) : d \notin PlanIds(p)

\* C11: a plan in which a dependency names an id no step has is validated
\* without fault; the missing id has no outgoing edges, so no reported chain
\* contains it, and the depth computation counts it as one more node on the
\* path (maxDepth is at least 2 and at most one more than the number of ids
\* named, the root of a traversal being counted again when a path returns to
\* it).
C11_DanglingDependency ==
  (pc = "returned" /\ WellFormed(plan) /\ UniqueIds(plan) /\ HasDanglingDependency(plan)) =>
    /\ result.kind = "success"
    /\ HasFinding(result.validations, "circular-dependencies") =>
         \A c \in Range(FindingNamed(result.validations, "circular-dependencies").details.chains) :
           Range(c) \subseteq PlanIds(plan)
    /\ HasFinding(result.validations, "dependency-overview")
    /\ LET maxDepth == FindingNamed(result.validations, "dependency-overview").details.maxDepth
           ids == PlanIds(plan)
                    \cup UNION {Range(StepDependencies(plan.steps[i])) : i \in 1..Len(plan.steps)}
       IN maxDepth >= 2 /\ maxDepth <= Cardinality(ids) + 1

\* a plan with a cycle and a dependency on a missing id, validated
C11_Witness ==
  /\ Succeeded
  /\ UniqueIds(plan)
  /\ HasDanglingDependency(plan)
  /\ HasFinding(result.validations, "circular-dependencies")

\* the resource names of all steps, as a set
DistinctResources(p) ==
  UNION {Range(p.steps[i].resources.val) :
           i \in {j \in 1..Len(p.steps) : p.steps[j].resources.def}}

\* the number of entries of all resource lists
ListedResources(p) ==
  forEach(LAMBDA n, i : n + (IF p.steps[i].resources.def
                               THEN Len(p.steps[i].resources.val) ELSE 0),
          1, Len(p.steps), 0)

\* C12: the 'resource-count' finding reports the number of distinct resource
\* names in the union of all steps' resource lists, and its type is passed
\* when that number is at most 10 and warning otherwise.
C12_DistinctResourceCount ==
  Succeeded =>
    /\ HasFinding(result.validations, "resource-count")
    /\ LET finding == FindingNamed(result.validations, "resource-count")
           distinct == Cardinality(DistinctResources(plan))
       IN /\ finding.details.totalResources = distinct
          /\ finding.type = (IF distinct <= 10 THEN "passed" ELSE "warning")

\* eleven distinct names, some of them listed by both steps and one listed
\* twice by the same step: reported as 11 with a warning
C12_Witness ==
  /\ Succeeded
  /\ Cardinality(DistinctResources(plan)) = 11
  /\ ListedResources(plan) > 12
  /\ FindingNamed(result.validations, "resource-count").type = "warning"
  /\ FindingNamed(result.validations, "resource-count").details.totalResources = 11

\* the keyword occurs, in any letter case, in the title and the description
\* joined by one space
KeywordOccurs(step, keyword) ==
  LET text == step.title \o <<" ">> \o
              (IF step.description.def THEN step.description.val ELSE S_undefined)
  IN \E i \in 1..Len(text) :
       /\ i + Len(keyword) - 1 <= Len(text)
       /\ \A j \in 1..Len(keyword) : LowerChar(text[i + j - 1]) = keyword[j]

\* the number of entries of risks for step number i, keyword and level
EntriesFor(risks, i, keyword, level) ==
  Cardinality({k \in 1..Len(risks) :
                 risks[k].step = i /\ risks[k].risk = keyword /\ risks[k].level = level})

\* C13: identifyRisks returns one entry for every pair of a step and a
\* keyword of the high or medium list that occurs, case-insensitively, in the
\* step's title and description, with the level of the keyword's list and the
\* step's 1-based position, and no other entry; validateRisks emits
\* 'high-risks' when a high keyword occurs in some step.
C13_OneEntryPerMatch ==
  (WellFormed(plan) /\ pc \in {"score", "returned"}) =>
    LET risks == identifyRisks(plan.steps)
        n == Len(plan.steps)
        Expected(i, keyword) == IF KeywordOccurs(plan.steps[i], keyword) THEN 1 ELSE 0
    IN /\ \A i \in 1..n :
            /\ \A k \in 1..Len(riskFactorsHigh) :
                 /\ EntriesFor(risks, i, riskFactorsHigh[k], "high")
                      = Expected(i, riskFactorsHigh[k])
                 /\ EntriesFor(risks, i, riskFactorsHigh[k], "medium") = 0
            /\ \A k \in 1..Len(riskFactorsMedium) :
                 /\ EntriesFor(risks, i, riskFactorsMedium[k], "medium")
                      = Expected(i, riskFactorsMedium[k])
                 /\ EntriesFor(risks, i, riskFactorsMedium[k], "high") = 0
       /\ \A k \in 1..Len(risks) :
            /\ risks[k].step \in 1..n
            /\ risks[k].title = plan.steps[risks[k].step].title
            /\ risks[k].risk \in Range(riskFactorsHigh) \cup Range(riskFactorsMedium)
       /\ (pc = "score" \/ Succeeded) =>
            LET vs == IF pc = "score" THEN validations ELSE result.validations
                high == \E i \in 1..n : \E k \in 1..Len(riskFactorsHigh) :
                          KeywordOccurs(plan.steps[i], riskFactorsHigh[k])
            IN /\ HasFinding(vs, "high-risks") <=> high
               /\ HasFinding(vs, "high-risks") =>
                    FindingNamed(vs, "high-risks").details.risks
                      = SelectSeq(risks, LAMBDA r : r.level = "high")

\* the second of two steps names "Tight Timeline" and "budget constraints":
\* one high and one medium entry for step 2, and a 'high-risks' finding
C13_Witness ==
  /\ Succeeded
  /\ Len(plan.steps) = 2
  /\ KeywordOccurs(plan.steps[2], riskFactorsHigh[1])
  /\ KeywordOccurs(plan.steps[2], riskFactorsMedium[4])
  /\ ~KeywordOccurs(plan.steps[1], riskFactorsHigh[1])
  /\ HasFinding(result.validations, "high-risks")
  /\ HasFinding(result.validations, "medium-risks")

MentionsHours(text) ==
  \E i \in 1..Len(text) :
    /\ i + 4 <= Len(text)
    /\ <<text[i], text[i + 1], text[i + 2], text[i + 3], text[i + 4]>> = S_hours

\* the three conditions of the claim
ClaimedFeasible(step) ==
  /\ step.duration.def /\ MentionsHours(step.duration.val)
  /\ step.resources.def /\ step.resources.val # <<>>
  /\ step.description.def /\ Len(step.description.val) >= 21

\* C15: validateFeasibility emits, for the step at position i, a finding
\* 'feasibility-i' that is passed iff the duration names hours, the resource
\* list is non-empty and the description is longer than 20 characters, and
\* warning otherwise; after these it emits one 'overall-feasibility' finding,
\* passed iff every step is feasible.
C15_FeasibilityFindings ==
  (pc = "resources" /\ WellFormed(plan)) =>
    LET n == Len(plan.steps) IN
    /\ Len(validations) = n + 1
    /\ \A i \in 1..n :
         /\ validations[i].id = [name |-> "feasibility", index |-> i]
         /\ validations[i].type =
              (IF ClaimedFeasible(plan.steps[i]) THEN "passed" ELSE "warning")
    /\ validations[n + 1].id.name = "overall-feasibility"
    /\ validations[n + 1].type =
         (IF \A i \in 1..n : ClaimedFeasible(plan.steps[i]) THEN "passed" ELSE "warning")

\* a step that fails one condition only, its description being 20 characters
\* long, has been assessed: 'feasibility-1' and the overall finding warn
C15_Witness ==
  /\ pc = "resources"
  /\ Len(plan.steps) = 1
  /\ plan.steps[1].description = Some(BoundaryDescriptions[1])
  /\ plan.steps[1].duration = Some(Dur_1_2_hours)
  /\ plan.steps[1].resources = Some(<<Res_Laptop>>)
  /\ validations[1].type = "warning"
  /\ validations[2].type = "warning"

\* every step has a duration of the form "a-b"
AllRangeDurations(p) ==
  \A i \in 1..Len(p.steps) :
    p.steps[i].duration.def /\ matchRange(p.steps[i].duration.val).matched

EndsWith(text, suffix) ==
  /\ Len(text) >= Len(suffix)
  /\ SubSeq(text, Len(text) - Len(suffix) + 1, Len(text)) = suffix

\* the durations of the plan's steps, in order
DurationsOf(p) == [i \in 1..Len(p.steps) |-> p.steps[i].duration.val]

\* C16: the timeline total is the sum of the midpoints (a+b)/2 of the steps'
\* "a-b" durations, reported in hours up to 8, in days above 8 and up to 40,
\* and in weeks above 40; "1-2 hours" and "3-4 hours" are reported as "5 hours".
C16_TimelineTotal ==
  (Succeeded /\ WellFormed(plan) /\ AllRangeDurations(plan)) =>
    LET total2 == ClaimedTotalHalfHours(plan.steps)
        text == FindingNamed(result.validations, "timeline-assessment").details.totalDuration
    IN /\ total2 <= 16 => EndsWith(text, S_hoursUnit)
       /\ (total2 > 16 /\ total2 <= 80) => EndsWith(text, S_daysUnit)
       /\ total2 > 80 => EndsWith(text, S_weeksUnit)
       /\ DurationsOf(plan) = <<Dur_1_2_hours, Dur_3_4_hours>>
            => text = <<"5">> \o S_hoursUnit
       /\ DurationsOf(plan) = <<BoundaryDurations[1]>> => text = <<"8">> \o S_hoursUnit
       /\ DurationsOf(plan) = <<BoundaryDurations[2]>> => text = <<"2">> \o S_daysUnit
       /\ DurationsOf(plan) = <<BoundaryDurations[3]>> => text = <<"5">> \o S_daysUnit
       /\ DurationsOf(plan) = <<BoundaryDurations[4]>> => text = <<"2">> \o S_weeksUnit

\* the two steps of "1-2 hours" and "3-4 hours", reported as "5 hours"
C16_Witness ==
  /\ Succeeded
  /\ DurationsOf(plan) = <<Dur_1_2_hours, Dur_3_4_hours>>
  /\ FindingNamed(result.validations, "timeline-assessment").details.totalDuration
       = <<"5">> \o S_hoursUnit

\* C17: the 'timeline-assessment' finding is a warning iff the total duration
\* exceeds 4 weeks of 40 hours or the plan has more than 10 steps, and passed
\* in every other case.
C17_TimelineWarning ==
  (Succeeded /\ WellFormed(plan)) =>
    /\ HasFinding(result.validations, "timeline-assessment")
    /\ FindingNamed(result.validations, "timeline-assessment").type =
         (IF ClaimedTotalHalfHours(plan.steps) > 2 * 4 * 40 \/ Len(plan.steps) > 10
            THEN "warning" ELSE "passed")

\* two steps that total 161.5 hours: a warning although the steps are few
C17_Witness ==
  /\ Succeeded
  /\ Len(plan.steps) = 2
  /\ ClaimedTotalHalfHours(plan.steps) = 323
  /\ FindingNamed(result.validations, "timeline-assessment").type = "warning"

\* some finding of type warning has a title that contains word
WarningTitled(vs, word) ==
  \E i \in 1..Len(vs) : vs[i].type = "warning" /\ includes(vs[i].title, word)

\* the entries the claim lists, as <<priority, action>>, in its fixed order
ClaimedRecommendations(vs) ==
  (IF \E i \in 1..Len(vs) : vs[i].type = "failed"
     THEN << <<"High", "Address failed validations before proceeding">> >> ELSE <<>>)
  \o (IF Cardinality({i \in 1..Len(vs) : vs[i].type = "warning"}) >= 4
        THEN << <<"Medium", "Review and address warning validations">> >> ELSE <<>>)
  \o (IF WarningTitled(vs, S_Resource)
        THEN << <<"Medium", "Review resource allocation and availability">> >> ELSE <<>>)
  \o (IF WarningTitled(vs, S_Timeline)
        THEN << <<"Medium", "Review timeline estimates and dependencies">> >> ELSE <<>>)

\* C18: generateRecommendations returns, in this order and with no other
\* entry: the High 'address failed validations' entry iff some finding is
\* failed, the Medium 'review warnings' entry iff more than 3 findings are
\* warnings, the resource entry iff a warning's title contains "Resource",
\* the timeline entry iff a warning's title contains "Timeline".
C18_Recommendations ==
  Succeeded =>
    /\ result.recommendations.def
    /\ LET recs == result.recommendations.val
       IN [i \in 1..Len(recs) |-> <<recs[i].priority, recs[i].action>>]
            = ClaimedRecommendations(result.validations)

\* a result with a failed finding, more than three warnings, a resource
\* warning and a timeline warning: all four entries
C18_Witness ==
  /\ Succeeded
  /\ Len(result.recommendations.val) = 4
  /\ result.recommendations.val[1].priority = "High"
  /\ \E i \in 1..Len(result.validations) :
       result.validations[i].id.name = "critical-resources"

\* the ids of the steps whose dependency list has more than 2 entries
ManyDependencies(p) ==
  {p.steps[i].id : i \in {j \in 1..Len(p.steps) : Len(StepDependencies(p.steps[j])) > 2}}

\* C19: a step is listed in the 'complex-dependencies' finding iff its
\* dependency list has more than 2 entries, with or without a cycle in the
\* plan; the finding is emitted iff there is such a step.
C19_ComplexDependencies ==
  (Succeeded /\ WellFormed(plan) /\ UniqueIds(plan)) =>
    /\ HasFinding(result.validations, "complex-dependencies") <=> ManyDependencies(plan) # {}
    /\ HasFinding(result.validations, "complex-dependencies") =>
         LET listed == FindingNamed(result.validations, "complex-dependencies").details.steps
         IN /\ {listed[k].step : k \in 1..Len(listed)} = ManyDependencies(plan)
            /\ Len(listed) = Cardinality(ManyDependencies(plan))
            /\ FindingNamed(result.validations, "complex-dependencies").type = "warning"

\* a step with three dependencies, one of them on itself: listed as complex
\* in a plan that also has a cycle
C19_Witness ==
  /\ Succeeded
  /\ UniqueIds(plan)
  /\ HasFinding(result.validations, "complex-dependencies")
  /\ HasFinding(result.validations, "circular-dependencies")
  /\ Len(plan.steps) >= 2

IsDependencyPath(graph, chain) ==
  \A k \in 1..(Len(chain) - 1) : chain[k + 1] \in Range(Neighbors(graph, chain[k]))

\* the last id of the chain occurs at an earlier position too
ClosesOnItself(chain) ==
  \E k \in 1..(Len(chain) - 1) : chain[k] = chain[Len(chain)]

\* C21: every chain reported by detectCircularDependencies starts at a key of
\* the graph, follows dependency edges (each id depends on the next), and ends
\* in an id that is on the recursion stack of the same traversal, so that the
\* last id occurs earlier in the chain.
C21_ChainsCloseOnStack ==
  (Succeeded /\ UniqueIds(plan)
     /\ HasFinding(result.validations, "circular-dependencies")) =>
    LET graph == buildDependencyGraph(plan.steps)
        chains == FindingNamed(result.validations, "circular-dependencies").details.chains
    IN \A k \in 1..Len(chains) :
         /\ Len(chains[k]) >= 2
         /\ chains[k][1] \in Range(graph.keys)
         /\ IsDependencyPath(graph, chains[k])
         /\ ClosesOnItself(chains[k])

\* a cycle can be reached from u along dependency edges
ReachesCycle(graph, u) == ReachableFrom(graph, u) \cap CycleNodes(graph) # {}

\* the id of the first step, in the order of the plan, from which a cycle can
\* be reached
FirstCyclicStep(p) ==
  LET graph == buildDependencyGraph(p.steps)
      i == CHOOSE i \in 1..Len(p.steps) :
             /\ ReachesCycle(graph, p.steps[i].id)
             /\ \A j \in 1..(i - 1) : ~ReachesCycle(graph, p.steps[j].id)
  IN p.steps[i].id

\* C22: the depth-first traversals are started from the steps in the order
\* in which the plan lists them, so the first reported chain starts at the
\* first step of the plan from which a cycle can be reached, also when that
\* step has a higher id than a later one.
C22_RootsInPlanOrder ==
  (Succeeded /\ UniqueIds(plan)
     /\ HasFinding(result.validations, "circular-dependencies")) =>
    FindingNamed(result.validations, "circular-dependencies").details.chains[1][1]
      = FirstCyclicStep(plan)

\* the largest number of nodes on a dependency path that starts at u and
\* visits no node of seen and no node twice
RECURSIVE LongestFrom(_, _, _)
LongestFrom(graph, u, seen) ==
  LET onward == {LongestFrom(graph, v, seen \cup {u}) :
                   v \in Range(Neighbors(graph, u)) \ (seen \cup {u})}
  IN 1 + (IF onward = {} THEN 0 ELSE CHOOSE m \in onward : \A x \in onward : x <= m)

LongestSimplePath(graph) ==
  LET lengths == {LongestFrom(graph, u, {}) : u \in Range(graph.keys)}
  IN IF lengths = {} THEN 0 ELSE CHOOSE m \in lengths : \A x \in lengths : x <= m

\* C23: calculateMaxDependencyDepth returns the largest number of nodes on a
\* dependency path that visits no node twice, for graphs with cycles and
\* self-dependencies too, and 0 for the empty graph.
C23_DepthIsLongestSimplePath ==
  (WellFormed(plan) /\ UniqueIds(plan)) =>
    LET graph == buildDependencyGraph(plan.steps) IN
    /\ calculateMaxDependencyDepth(graph) = LongestSimplePath(graph)
    /\ Succeeded =>
         FindingNamed(result.validations, "dependency-overview").details.maxDepth
           = LongestSimplePath(graph)

\* the points the claim gives a step: a missing dependency list counts as empty
ClaimedMitigationPoints(step) ==
  (IF step.description.def /\ includes(toLowerCase(step.description.val), S_mitigat)
     THEN 20 ELSE 0)
  + (IF step.resources.def
        /\ \E i \in 1..Len(step.resources.val) :
             includes(toLowerCase(step.resources.val[i]), S_backup)
       THEN 15 ELSE 0)
  + (IF Len(StepDependencies(step)) < 3 THEN 10 ELSE 0)

\* C24: for a plan with steps the mitigation score is
\* min(100, round(100 x points / (30 x stepCount))), where a step adds 20
\* points for a mitigation keyword in its description, 15 for a resource
\* named "backup" and 10 for fewer than 3 dependencies, a step without a
\* dependency list receiving the 10 points.
C24_MitigationFormula ==
  (Succeeded /\ WellFormed(plan) /\ Len(plan.steps) > 0) =>
    LET n == Len(plan.steps)
        points == forEach(LAMBDA sum, i : sum + ClaimedMitigationPoints(plan.steps[i]), 1, n, 0)
        score == FindingNamed(result.validations, "risk-mitigation").details.score
    IN ~score.nan /\ score.v = Min(100, (200 * points + 30 * n) \div (60 * n))

\* the positions the claim lists: a step whose midpoint is more than 4 hours
\* away from the midpoint of the step just before it
ClaimedUnbalanced(p) ==
  {i \in 2..Len(p.steps) :
     Abs(ClaimedHalfHours(p.steps[i]) - ClaimedHalfHours(p.steps[i - 1])) > 2 * 4}

\* C25: in a plan whose durations all have the form "a-b",
\* identifyUnbalancedDurations lists a step iff it is not the first and its
\* midpoint differs by more than 4 hours from the midpoint of the step before
\* it, whatever that midpoint is; 'duration-balance' is emitted iff a step is
\* listed.
C25_UnbalancedAdjacent ==
  (Succeeded /\ WellFormed(plan) /\ AllRangeDurations(plan)) =>
    LET unbalanced == identifyUnbalancedDurations(plan.steps) IN
    /\ {unbalanced[k].step : k \in 1..Len(unbalanced)} = ClaimedUnbalanced(plan)
    /\ HasFinding(result.validations, "duration-balance") <=> ClaimedUnbalanced(plan) # {}

\* the same elements, each as often in a as in b
SameMultiset(a, b) ==
  /\ Len(a) = Len(b)
  /\ \A x \in Range(a) \cup Range(b) :
       Cardinality({i \in 1..Len(a) : a[i] = x}) = Cardinality({i \in 1..Len(b) : b[i] = x})

\* the findings of the run in the order of this.validationRules
SequentialFindings(outcomes) ==
  outcomes[1].out \o outcomes[2].out \o outcomes[3].out \o outcomes[4].out \o outcomes[5].out

FailedFindings(vs) == {i \in 1..Len(vs) : vs[i].type = "failed"}

\* C27: a successful result holds at most one finding of type failed, and
\* that finding is 'circular-dependencies'; it is present iff
\* detectCircularDependencies reported a chain, and when it is present the
\* 'dependency-overview' finding is a warning and the recommendations start
\* with the High-priority entry.
C27_OnlyCircularFails ==
  Succeeded =>
    LET vs == result.validations
        chains == detectCircularDependencies(buildDependencyGraph(plan.steps))
    IN /\ Cardinality(FailedFindings(vs)) <= 1
       /\ \A i \in FailedFindings(vs) : vs[i].id.name = "circular-dependencies"
       /\ HasFinding(vs, "circular-dependencies") <=> Len(chains) > 0
       /\ HasFinding(vs, "circular-dependencies") =>
            /\ FindingNamed(vs, "circular-dependencies").type = "failed"
            /\ FindingNamed(vs, "dependency-overview").type = "warning"
            /\ Len(result.recommendations.val) >= 1
            /\ result.recommendations.val[1].priority = "High"
            /\ result.recommendations.val[1].count = 1

\* a cyclic plan without a step of more than two dependencies: the failed
\* finding alone turns the overview into a warning
C27_Witness ==
  /\ Succeeded
  /\ Len(plan.steps) = 3
  /\ HasFinding(result.validations, "circular-dependencies")
  /\ ~HasFinding(result.validations, "complex-dependencies")
  /\ FindingNamed(result.validations, "dependency-overview").type = "warning"
  /\ result.recommendations.val[1].priority = "High"

\* the first step has an empty dependency list and every later step lists
\* the id of the step before it and nothing else
IsLinearChain(p) ==
  /\ p.kind = "array"
  /\ Len(p.steps) >= 1
  /\ \A i \in 1..Len(p.steps) :
       /\ p.steps[i].dependencies.def
       /\ p.steps[i].dependencies.val =
            (IF i = 1 THEN <<>> ELSE <<p.steps[i - 1].id>>)

\* C28: every plan of the planner (generatePlan with the template of 3, 5 or
\* 7 steps, and getFallbackPlan) is a linear chain: the first step has no
\* dependencies, each later step depends on the step before it only.  Its
\* validation succeeds with no 'circular-dependencies' and no
\* 'complex-dependencies' finding and with a 'dependency-overview' of type
\* passed whose maxDepth is the number of steps.
C28_PlannerPlansLinear ==
  plan \in PlannerPlans =>
    /\ IsLinearChain(plan)
    /\ Len(plan.steps) \in {3, 5, 7}
    /\ pc = "returned" =>
         /\ result.kind = "success"
         /\ ~HasFinding(result.validations, "circular-dependencies")
         /\ ~HasFinding(result.validations, "complex-dependencies")
         /\ HasFinding(result.validations, "dependency-overview")
         /\ FindingNamed(result.validations, "dependency-overview").type = "passed"
         /\ FindingNamed(result.validations, "dependency-overview").details.maxDepth
              = Len(plan.steps)

\* a plan of the complex template, seven steps, validated
C28_Witness ==
  /\ Succeeded
  /\ plan \in PlannerPlans
  /\ Len(plan.steps) = 7
  /\ HasFinding(result.validations, "dependency-overview")
  /\ FindingNamed(result.validations, "dependency-overview").details.maxDepth = 7

\* C29: when main has returned its response, with statusCode 200 or 500, the
\* session createSession created for the invocation has been passed to
\* deleteSession.
C29_SessionDeletedBeforeReturn ==
  (main.pc = "returned" /\ main.sessionId # 0) =>
    main.sessionId \in Range(main.deleted)

\* the positions of trace before k where the agent's status was set to completed
CompletedBefore(t, agent, k) ==
  {j \in 1..(k - 1) : t[j] = Ev("updateStatus", agent, "completed", 0)}

\* the agents of the callAgent entries of trace, in order
RECURSIVE AgentsCalled(_)
AgentsCalled(t) ==
  IF t = <<>> THEN <<>>
  ELSE IF Head(t).op = "callAgent" THEN <<Head(t).agent>> \o AgentsCalled(Tail(t))
  ELSE AgentsCalled(Tail(t))

IsPrefix(s, t) == Len(s) <= Len(t) /\ s = SubSeq(t, 1, Len(s))

\* C30: processTask calls the agents in the order planner, validator,
\* advisor, the validator and the advisor only after the status of the stage
\* before was set to completed; the progress bar is set to 33, 66 and 100
\* only, each after the planner's, validator's and advisor's status was set
\* to completed; and when processTask has ended, by success, by error or by
\* an early return, the button and the inputs are enabled and no timer runs.
C30_StagesInOrderAndCleanup ==
  LET t == app.trace IN
  /\ IsPrefix(AgentsCalled(t), <<"planner", "validator", "advisor">>)
  /\ \A k \in 1..Len(t) :
       /\ (t[k].op = "callAgent" /\ t[k].agent = "validator") =>
            CompletedBefore(t, "planner", k) # {}
       /\ (t[k].op = "callAgent" /\ t[k].agent = "advisor") =>
            CompletedBefore(t, "validator", k) # {}
       /\ t[k].op = "updateProgress" =>
            /\ t[k].percentage \in {33, 66, 100}
            /\ t[k].percentage = 33 => CompletedBefore(t, "planner", k) # {}
            /\ t[k].percentage = 66 => CompletedBefore(t, "validator", k) # {}
            /\ t[k].percentage = 100 => CompletedBefore(t, "advisor", k) # {}
  /\ app.pc = "idle" => (~app.disabled /\ app.intervals = {})

\* processTask has ended by an error of displayAdvice, after the validator's
\* stage completed and the advisor was called
C30_Witness ==
  /\ app.pc = "idle"
  /\ Len(app.trace) >= 2
  /\ app.trace[Len(app.trace)].op = "finally"
  /\ app.trace[Len(app.trace) - 1].op = "catch"
  /\ AgentsCalled(app.trace) = <<"planner", "validator", "advisor">>
  /\ app.width = 66
  /\ ~app.disabled
  /\ app.intervals = {}

====
